---- MODULE Spec2Model ----
(***************************************************************************)
(* A model of the VileHvH installation pipeline:                           *)
(*   src/src/steamcmd_installer.py           SteamCMDInstaller             *)
(*   src/src/csgo_installer.py               CSGOInstaller                 *)
(*   src/src/metamod_sourcemod_installer.py  MetamodSourcemodInstaller     *)
(*   src/scripts/install_plugins.py, src/scripts/setup.py (plugin loop),   *)
(*   src/plugin_manager.py                   plugin acquisition            *)
(*   src/src/server_config.py                ServerConfigurator            *)
(* Each component has its own variables, initial condition, next-state     *)
(* relation and specification; a component's specification leaves the      *)
(* other components' variables unchanged.  The filesystem and the external *)
(* tools (downloads, archives, package managers, steamcmd, git) are the    *)
(* environment: their outcomes are chosen nondeterministically.            *)
(***************************************************************************)
EXTENDS Integers, Sequences, FiniteSets, TLC

VARIABLES
    \* ---- MetamodSourcemodInstaller ----
    modFs,        \* kind of every path below <install_dir> and of the /tmp archives
    mmArchive,    \* members of the archive served at metamod_url
    smArchive,    \* members of the archive served at sourcemod_url
    modPc,        \* position inside the running call
    modOp,        \* the public method that was called
    modForce,     \* its force argument
    modIdx,       \* number of archive members extracted so far
    mmResult,     \* what install_metamod returned in this call
    smResult,     \* what install_sourcemod returned in this call
    allResult,    \* what install_all returned in this call
    modObs,       \* observations of the current call (history, read by the properties)
    modCalls,     \* number of calls made so far
    \* ---- SteamCMDInstaller ----
    stOs,         \* sys_info.os_type
    stDistro,     \* sys_info.distro ("none" when absent)
    stPms,        \* sys_info.package_managers
    stFs,         \* kind of the paths the installer reads and writes
    stArchive,    \* members of the SteamCMD archive, in archive order
    stExe,        \* self.steamcmd_exe
    stPc,         \* position inside install()
    stIdx,        \* number of archive members extracted so far
    stResult,     \* what install() returned in this call
    stPrev,       \* what the previous call of install() returned
    stObs,        \* observations of the current call (history)
    stCalls,      \* number of calls of install() so far
    \* ---- ServerConfigurator ----
    cfgDir,          \* whether csgo/cfg exists
    serverCfg,       \* content of cfg/server.cfg
    serverCfgBackup, \* content of cfg/server.cfg.backup
    steamInf,        \* content of csgo/steam.inf, a sequence of tokens
    steamInfBackup,  \* content of csgo/steam.inf.backup
    cfgLast,         \* the last call: its arguments, what it saw and returned
    cfgCalls,        \* number of calls so far
    \* ---- plugin installation (install_plugins.py and the loop of setup.py) ----
    tempDirs,     \* the temporary staging directories that exist
    plSm,         \* whether addons/sourcemod exists on the server
    plTarget,     \* the directories and files under addons/sourcemod
    plPc,         \* position inside the current attempt
    plAttempt,    \* the current or last attempt
    plCalls,      \* number of attempts so far
    \* ---- CSGOInstaller ----
    csOs,         \* sys_info.os_type
    csDir,        \* self.install_dir: "default" or "custom"
    csFs,         \* the files present in each install directory
    csFirstLogin, \* self.first_login
    csPc,         \* "idle", or "streaming" inside install_server
    csCall,       \* the running install_server call
    csLast,       \* the last completed call
    csOps,        \* number of calls so far
    csScenario,   \* progress through the installation sequence of setup.py
    \* ---- main of scripts/setup.py ----
    suPc,         \* the step main is about to run
    suOs,         \* sys_info.os_type
    suArgs,       \* the parsed command line
    suTool,       \* steamcmd_path and whether a file exists there
    suLog,        \* the stage operations called so far, with their results
    suExit,       \* the value main returned, "none" while it runs
    suRoot,       \* whether the installation directory main uses exists
    \* ---- the plugin source of scripts/install_plugins.py ----
    urlSource,    \* the source argument, as a sequence of its parts
    urlDone,      \* whether the source has been classified and normalized
    urlResult,    \* the reference handed to git clone, or the local path
    \* ---- detect_package_managers of system_detect.py ----
    dtFound,      \* the commands check_command_exists finds
    dtDone,       \* whether detect_package_managers has returned
    dtManagers    \* the list it returned

modVars == <<modFs, mmArchive, smArchive, modPc, modOp, modForce, modIdx,
             mmResult, smResult, allResult, modObs, modCalls>>

stVars == <<stOs, stDistro, stPms, stFs, stArchive, stExe, stPc, stIdx,
            stResult, stPrev, stObs, stCalls>>

cfgVars == <<cfgDir, serverCfg, serverCfgBackup, steamInf, steamInfBackup,
             cfgLast, cfgCalls>>

plVars == <<tempDirs, plSm, plTarget, plPc, plAttempt, plCalls>>

csVars == <<csOs, csDir, csFs, csFirstLogin, csPc, csCall, csLast, csOps,
            csScenario>>

suVars == <<suPc, suOs, suArgs, suTool, suLog, suExit, suRoot>>

urlVars == <<urlSource, urlDone, urlResult>>

dtVars == <<dtFound, dtDone, dtManagers>>

vars == <<modVars, stVars, cfgVars, plVars, csVars, suVars, urlVars, dtVars>>

\* What a step of component c leaves alone: the other components.
Frame(c) ==
    /\ IF c = "mod" THEN TRUE ELSE UNCHANGED modVars
    /\ IF c = "steam" THEN TRUE ELSE UNCHANGED stVars
    /\ IF c = "config" THEN TRUE ELSE UNCHANGED cfgVars
    /\ IF c = "plugin" THEN TRUE ELSE UNCHANGED plVars
    /\ IF c = "csgo" THEN TRUE ELSE UNCHANGED csVars
    /\ IF c = "setup" THEN TRUE ELSE UNCHANGED suVars
    /\ IF c = "url" THEN TRUE ELSE UNCHANGED urlVars
    /\ IF c = "detect" THEN TRUE ELSE UNCHANGED dtVars

(***************************************************************************)
(* Bounds of the model.                                                    *)
(***************************************************************************)
MaxModCalls == 2
MaxSteamCalls == 2
MaxCfgCalls == 2
MaxPluginCalls == 3
MaxCsgoOps == 3
MaxLines == 1
MaxInfLines == 3
MaxTail == 3

(***************************************************************************)
(*                     MetamodSourcemodInstaller                           *)
(***************************************************************************)
\* Paths: csgo_dir, addons_dir, addons/metamod.vdf, addons/metamod,
\* addons/metamod/bin, .../bin/linux64, .../bin/linux32, addons/sourcemod,
\* the rest of the SourceMod tree, /tmp/metamod<ext>, /tmp/sourcemod<ext>.
ModPaths == {"csgo", "addons", "metamod.vdf", "metamod", "metamod/bin",
             "linux64", "linux32", "sourcemod", "sourcemod/core",
             "tmp_metamod", "tmp_sourcemod"}

\* The parent directory of a path below the install directory.
ModParent(p) ==
    CASE p = "addons"         -> "csgo"
      [] p = "metamod.vdf"    -> "addons"
      [] p = "metamod"        -> "addons"
      [] p = "metamod/bin"    -> "metamod"
      [] p = "linux64"        -> "metamod/bin"
      [] p = "linux32"        -> "metamod/bin"
      [] p = "sourcemod"      -> "addons"
      [] p = "sourcemod/core" -> "sourcemod"
      [] OTHER                -> "root"

RECURSIVE ModAncestors(_)
ModAncestors(p) ==
    IF ModParent(p) = "root" THEN {}
    ELSE {ModParent(p)} \cup ModAncestors(ModParent(p))

Exists(fs, p) == fs[p] # "none"

\* extractall(csgo_dir) for one member, and mkdir(parents=True,
\* exist_ok=True) for a directory: missing ancestors are created; a
\* directory member leaves an existing entry (directory or link) as it is; a
\* file member replaces what is there.
ExtractMember(fs, m) ==
    LET withParents ==
            [q \in DOMAIN fs |->
                IF q \in ModAncestors(m.path) /\ fs[q] = "none" THEN "dir" ELSE fs[q]]
    IN  [withParents EXCEPT ![m.path] =
            IF m.kind = "dir" /\ withParents[m.path] # "none"
            THEN withParents[m.path] ELSE m.kind]

Member(p, k) == [path |-> p, kind |-> k]

\* The archives the Metamod URL can serve: the loader with a 64-bit subtree,
\* a 32-bit subtree, both, or an archive without the loader (stale URL).
MetamodArchive(has64, has32, hasLoader) ==
    <<Member("addons", "dir")>>
    \o (IF hasLoader
        THEN <<Member("metamod.vdf", "file"), Member("metamod", "dir"),
               Member("metamod/bin", "dir")>>
        ELSE <<>>)
    \o (IF hasLoader /\ has32 THEN <<Member("linux32", "dir")>> ELSE <<>>)
    \o (IF hasLoader /\ has64 THEN <<Member("linux64", "dir")>> ELSE <<>>)

MetamodArchives ==
    {MetamodArchive(a, b, c) : a \in BOOLEAN, b \in BOOLEAN, c \in BOOLEAN}

SourcemodArchive(hasSm) ==
    <<Member("addons", "dir")>>
    \o (IF hasSm THEN <<Member("sourcemod", "dir"), Member("sourcemod/core", "file")>>
        ELSE <<>>)

SourcemodArchives == {SourcemodArchive(a) : a \in BOOLEAN}

ArchiveHas(arch, p) == \E i \in 1..Len(arch) : arch[i].path = p

check_prerequisites_Always(fs) == TRUE

\* check_prerequisites
check_prerequisites(fs) == Exists(fs, "csgo")

\* is_metamod_installed
is_metamod_installed(fs) == Exists(fs, "metamod.vdf") \/ Exists(fs, "metamod")

\* is_sourcemod_installed
is_sourcemod_installed(fs) == Exists(fs, "sourcemod")

skip_install_IgnoresForce(installed, force) == installed

\* install_metamod, line 83, and install_sourcemod, line 195: an installed
\* layer is left alone unless force is given.
skip_install(installed, force) == installed /\ ~force

\* install_sourcemod, lines 191-193: the dependency check (force plays no part).
sourcemod_dependency_met_ForceBypasses(fs, force) ==
    force \/ Exists(fs, "metamod.vdf") \/ Exists(fs, "metamod")

sourcemod_dependency_met(fs, force) == is_metamod_installed(fs)

fix_metamod_architecture_RemovesOnly(fs, outcome) ==
    IF ~(Exists(fs, "metamod/bin") /\ fs["linux64"] = "dir" /\ Exists(fs, "linux32"))
    THEN fs
    ELSE IF outcome = "rmtree_fails" THEN fs ELSE [fs EXCEPT !["linux64"] = "none"]

fix_metamod_architecture_NoLinux32Check(fs, outcome) ==
    IF Exists(fs, "metamod/bin") /\ fs["linux64"] = "dir"
    THEN [fs EXCEPT !["linux64"] = "link"]
    ELSE fs

fix_metamod_architecture(fs, outcome) ==
    IF ~(Exists(fs, "metamod/bin") /\ fs["linux64"] = "dir" /\ Exists(fs, "linux32"))
    THEN fs
    ELSE CASE outcome = "ok"            -> [fs EXCEPT !["linux64"] = "link"]
           [] outcome = "symlink_fails" -> [fs EXCEPT !["linux64"] = "none"]
           [] OTHER                     -> fs

NoObs == [mmStarted |-> FALSE, smStarted |-> FALSE,
          mmInstalledAtStart |-> FALSE, smInstalledAtStart |-> FALSE,
          mmInstalledAtSmStart |-> FALSE,
          mmWrote |-> FALSE, smWrote |-> FALSE,
          mmDownloads |-> 0, smDownloads |-> 0,
          mmExtracted |-> FALSE, smExtracted |-> FALSE,
          mmDoneBeforeSm |-> FALSE,
          linux64Extracted |-> "none", linux32Extracted |-> "none", fix |-> "none",
          csgoAtStart |-> FALSE]

ModInit ==
    /\ modFs \in {[p \in ModPaths |-> IF p \in present THEN
                                           (IF p = "sourcemod/core" THEN "file" ELSE "dir")
                                       ELSE "none"] :
                    present \in {{}, {"csgo"},
                                 {"csgo", "addons", "sourcemod", "sourcemod/core"}}}
    /\ mmArchive \in MetamodArchives
    /\ smArchive \in SourcemodArchives
    /\ modPc = "idle"
    /\ modOp = "none"
    /\ modForce = FALSE
    /\ modIdx = 0
    /\ mmResult = "none"
    /\ smResult = "none"
    /\ allResult = "none"
    /\ modObs = NoObs
    /\ modCalls = 0

\* A public method is called (install_all, install_metamod, install_sourcemod).
ModCall(op, force) ==
    /\ modPc = "idle"
    /\ modCalls < MaxModCalls
    /\ modCalls' = modCalls + 1
    /\ modOp' = op
    /\ modForce' = force
    /\ modPc' = IF op = "install_sourcemod" THEN "sm_entry" ELSE "mm_entry"
    /\ modIdx' = 0
    /\ mmResult' = "none"
    /\ smResult' = "none"
    /\ allResult' = "none"
    /\ modObs' = NoObs
    /\ UNCHANGED <<modFs, mmArchive, smArchive>>
    /\ Frame("mod")

AfterMetamod_NoShortCircuit(res) ==
    IF modOp = "install_all"
    THEN /\ modPc' = "sm_entry"
         /\ allResult' = "none"
    ELSE /\ modPc' = "idle"
         /\ allResult' = "none"

\* install_all, lines 251-260: what the caller does with install_metamod's result.
AfterMetamod(res) ==
    IF modOp = "install_all"
    THEN IF res = "true"
         THEN /\ modPc' = "sm_entry"
              /\ allResult' = "none"
         ELSE /\ modPc' = "idle"
              /\ allResult' = res
    ELSE /\ modPc' = "idle"
         /\ allResult' = "none"

\* install_all, lines 256-260: what the caller does with install_sourcemod's result.
AfterSourcemod(res) ==
    /\ modPc' = "idle"
    /\ allResult' = IF modOp = "install_all" THEN res ELSE "none"

\* install_metamod, lines 76-86: the prerequisite check, the installed-check
\* and the creation of the addons directory.
MetamodEntry(mkdirOk) ==
    /\ modPc = "mm_entry"
    /\ LET obs == [modObs EXCEPT !.mmStarted = TRUE,
                                 !.csgoAtStart = Exists(modFs, "csgo"),
                                 !.mmInstalledAtStart = is_metamod_installed(modFs)]
       IN
       IF ~check_prerequisites(modFs)
       THEN /\ mmResult' = "false"
            /\ AfterMetamod("false")
            /\ modObs' = obs
            /\ UNCHANGED modFs
       ELSE IF skip_install(is_metamod_installed(modFs), modForce)
       THEN /\ mmResult' = "true"
            /\ AfterMetamod("true")
            /\ modObs' = [obs EXCEPT !.mmDoneBeforeSm = TRUE]
            /\ UNCHANGED modFs
       ELSE IF ~mkdirOk /\ ~Exists(modFs, "addons")
       THEN /\ mmResult' = "raise"
            /\ AfterMetamod("raise")
            /\ modObs' = obs
            /\ UNCHANGED modFs
       ELSE /\ modFs' = ExtractMember(modFs, Member("addons", "dir"))
            /\ modObs' = [obs EXCEPT !.mmWrote = TRUE]
            /\ modPc' = "mm_download"
            /\ UNCHANGED <<mmResult, allResult>>
    /\ UNCHANGED <<mmArchive, smArchive, modOp, modForce, modIdx, smResult, modCalls>>
    /\ Frame("mod")

\* install_metamod, lines 89-98: urlretrieve into /tmp/metamod<ext>.
MetamodDownload(ok) ==
    /\ modPc = "mm_download"
    /\ modObs' = [modObs EXCEPT !.mmDownloads = 1]
    /\ IF ok
       THEN /\ modFs' = [modFs EXCEPT !["tmp_metamod"] = "file"]
            /\ modPc' = "mm_extract"
            /\ UNCHANGED <<mmResult, allResult>>
       ELSE /\ mmResult' = "false"
            /\ AfterMetamod("false")
            /\ UNCHANGED modFs
    /\ UNCHANGED <<mmArchive, smArchive, modOp, modForce, modIdx, smResult, modCalls>>
    /\ Frame("mod")

\* install_metamod, lines 103-109: extractall writes the next member.
MetamodExtractMember ==
    /\ modPc = "mm_extract"
    /\ modIdx < Len(mmArchive)
    /\ modIdx' = modIdx + 1
    /\ modFs' = ExtractMember(modFs, mmArchive[modIdx + 1])
    /\ modObs' = [modObs EXCEPT !.mmExtracted = TRUE]
    /\ UNCHANGED <<mmArchive, smArchive, modPc, modOp, modForce,
                   mmResult, smResult, allResult, modCalls>>
    /\ Frame("mod")

\* install_metamod, lines 128-130: the archive cannot be opened or a member
\* cannot be written; the exception is caught and the install fails.
MetamodExtractFails ==
    /\ modPc = "mm_extract"
    /\ modIdx < Len(mmArchive)
    /\ mmResult' = "false"
    /\ AfterMetamod("false")
    /\ UNCHANGED <<modFs, mmArchive, smArchive, modOp, modForce, modIdx,
                   smResult, modObs, modCalls>>
    /\ Frame("mod")

\* install_metamod, lines 111-126: the temp file is removed, the install is
\* verified and the architecture fixup is applied.
MetamodFinish(outcome) ==
    /\ modPc = "mm_extract"
    /\ modIdx = Len(mmArchive)
    /\ LET unlinked == [modFs EXCEPT !["tmp_metamod"] = "none"]
       IN  IF is_metamod_installed(unlinked)
           THEN /\ modFs' = fix_metamod_architecture(unlinked, outcome)
                /\ mmResult' = "true"
                /\ AfterMetamod("true")
                /\ modObs' = [modObs EXCEPT !.mmDoneBeforeSm = TRUE,
                                            !.linux64Extracted = unlinked["linux64"],
                                            !.linux32Extracted = unlinked["linux32"],
                                            !.fix =
                                                IF /\ Exists(unlinked, "metamod/bin")
                                                   /\ unlinked["linux64"] = "dir"
                                                   /\ Exists(unlinked, "linux32")
                                                THEN outcome ELSE "none"]
           ELSE /\ modFs' = unlinked
                /\ mmResult' = "false"
                /\ AfterMetamod("false")
                /\ UNCHANGED modObs
    /\ modIdx' = 0
    /\ UNCHANGED <<mmArchive, smArchive, modOp, modForce, smResult, modCalls>>
    /\ Frame("mod")

\* install_sourcemod, lines 186-197: prerequisite check, dependency check and
\* installed-check.
SourcemodEntry ==
    /\ modPc = "sm_entry"
    /\ modObs' = [modObs EXCEPT !.smStarted = TRUE,
                                !.csgoAtStart = Exists(modFs, "csgo"),
                                !.smInstalledAtStart = is_sourcemod_installed(modFs),
                                !.mmInstalledAtSmStart =
                                    (Exists(modFs, "metamod.vdf") \/ Exists(modFs, "metamod"))]
    /\ IF ~check_prerequisites(modFs)
       THEN /\ smResult' = "false"
            /\ AfterSourcemod("false")
       ELSE IF ~sourcemod_dependency_met(modFs, modForce)
       THEN /\ smResult' = "false"
            /\ AfterSourcemod("false")
       ELSE IF skip_install(is_sourcemod_installed(modFs), modForce)
       THEN /\ smResult' = "true"
            /\ AfterSourcemod("true")
       ELSE /\ modPc' = "sm_download"
            /\ UNCHANGED <<smResult, allResult>>
    /\ UNCHANGED <<modFs, mmArchive, smArchive, modOp, modForce, modIdx,
                   mmResult, modCalls>>
    /\ Frame("mod")

\* install_sourcemod, lines 200-209: urlretrieve into /tmp/sourcemod<ext>.
SourcemodDownload(ok) ==
    /\ modPc = "sm_download"
    /\ modObs' = [modObs EXCEPT !.smDownloads = 1]
    /\ IF ok
       THEN /\ modFs' = [modFs EXCEPT !["tmp_sourcemod"] = "file"]
            /\ modPc' = "sm_extract"
            /\ UNCHANGED <<smResult, allResult>>
       ELSE /\ smResult' = "false"
            /\ AfterSourcemod("false")
            /\ UNCHANGED modFs
    /\ UNCHANGED <<mmArchive, smArchive, modOp, modForce, modIdx, mmResult, modCalls>>
    /\ Frame("mod")

\* install_sourcemod, lines 214-220: extractall writes the next member.
SourcemodExtractMember ==
    /\ modPc = "sm_extract"
    /\ modIdx < Len(smArchive)
    /\ modIdx' = modIdx + 1
    /\ modFs' = ExtractMember(modFs, smArchive[modIdx + 1])
    /\ modObs' = [modObs EXCEPT !.smExtracted = TRUE, !.smWrote = TRUE]
    /\ UNCHANGED <<mmArchive, smArchive, modPc, modOp, modForce,
                   mmResult, smResult, allResult, modCalls>>
    /\ Frame("mod")

\* install_sourcemod, lines 235-237: extraction raises and the install fails.
SourcemodExtractFails ==
    /\ modPc = "sm_extract"
    /\ modIdx < Len(smArchive)
    /\ smResult' = "false"
    /\ AfterSourcemod("false")
    /\ UNCHANGED <<modFs, mmArchive, smArchive, modOp, modForce, modIdx,
                   mmResult, modObs, modCalls>>
    /\ Frame("mod")

\* install_sourcemod, lines 222-233: the temp file is removed and the install
\* is verified.
SourcemodFinish ==
    /\ modPc = "sm_extract"
    /\ modIdx = Len(smArchive)
    /\ LET unlinked == [modFs EXCEPT !["tmp_sourcemod"] = "none"]
           res == IF is_sourcemod_installed(unlinked) THEN "true" ELSE "false"
       IN  /\ modFs' = unlinked
           /\ smResult' = res
           /\ AfterSourcemod(res)
    /\ modIdx' = 0
    /\ UNCHANGED <<mmArchive, smArchive, modOp, modForce, mmResult, modObs, modCalls>>
    /\ Frame("mod")

\* The run is interrupted (interrupt signal, process exit) in the middle of a
\* call: nothing more is written and no result is returned.
ModInterrupt ==
    /\ modPc # "idle"
    /\ modPc' = "idle"
    /\ mmResult' = IF modPc \in {"mm_entry", "mm_download", "mm_extract"}
                   THEN "interrupted" ELSE mmResult
    /\ smResult' = IF modPc \in {"sm_entry", "sm_download", "sm_extract"}
                   THEN "interrupted" ELSE smResult
    /\ allResult' = IF modOp = "install_all" THEN "interrupted" ELSE allResult
    /\ UNCHANGED <<modFs, mmArchive, smArchive, modOp, modForce, modIdx,
                   modObs, modCalls>>
    /\ Frame("mod")

ModNext ==
    \/ \E op \in {"install_all", "install_metamod", "install_sourcemod"},
          force \in BOOLEAN : ModCall(op, force)
    \/ \E mkdirOk \in BOOLEAN : MetamodEntry(mkdirOk)
    \/ \E ok \in BOOLEAN : MetamodDownload(ok)
    \/ MetamodExtractMember
    \/ MetamodExtractFails
    \/ \E outcome \in {"ok", "rmtree_fails", "symlink_fails"} : MetamodFinish(outcome)
    \/ SourcemodEntry
    \/ \E ok \in BOOLEAN : SourcemodDownload(ok)
    \/ SourcemodExtractMember
    \/ SourcemodExtractFails
    \/ SourcemodFinish
    \/ ModInterrupt

(***************************************************************************)
(*                          SteamCMDInstaller                              *)
(***************************************************************************)
\* Paths: steamcmd_dir, the downloaded archive inside it, steamcmd.sh /
\* steamcmd.exe inside it ("home_exe"), the other files of the archive, the
\* system-wide binaries a package installs, and /tmp/steamcmd-aur.
SteamPaths == {"steamcmd_dir", "archive", "home_exe", "home_rest",
               "/usr/bin/steamcmd", "/usr/games/steamcmd", "aur_dir"}

\* Values sys_info.distro takes: a recognized id, another id, the "unknown"
\* that detect_linux_distro returns for an os-release without ID, or None.
Distros == {"arch", "manjaro", "endeavouros", "ubuntu", "debian", "linuxmint", "pop",
            "fedora", "rhel", "centos", "gentoo", "unknown", "none"}

\* The SteamCMD archive holds the tool binary and the rest of its files.
SteamArchives == {<<"home_exe", "home_rest">>, <<"home_rest", "home_exe">>}

steam_is_installed_DefaultPathOnly(fs, exe) == fs["home_exe"] # "none"

\* is_installed, lines 34-39
steam_is_installed(fs, exe) == fs[exe] # "none"

install_linux_UnknownAsDebian(distro) ==
    IF distro \in {"arch", "manjaro", "endeavouros"} THEN "_install_arch"
    ELSE IF distro \in {"fedora", "rhel", "centos"} THEN "_install_fedora"
    ELSE "_install_debian"

\* _install_linux, lines 62-81: the strategy chosen for a distribution.
install_linux(distro) ==
    IF distro \in {"arch", "manjaro", "endeavouros"} THEN "_install_arch"
    ELSE IF distro \in {"ubuntu", "debian", "linuxmint", "pop"} THEN "_install_debian"
    ELSE IF distro \in {"fedora", "rhel", "centos"} THEN "_install_fedora"
    ELSE "_install_linux_generic"

aur_helper_ParuPreferred(pms) ==
    IF "paru" \in pms THEN "paru" ELSE IF "yay" \in pms THEN "yay" ELSE "none"

\* _install_arch, lines 88-92: the AUR helper, yay preferred over paru.
aur_helper(pms) ==
    IF "yay" \in pms THEN "yay" ELSE IF "paru" \in pms THEN "paru" ELSE "none"

\* Outcomes of a subprocess.run(check=True): exit 0, a non-zero exit
\* (CalledProcessError) or a missing executable (FileNotFoundError).
RunOutcomes == {"ok", "fail", "missing"}

SteamNoObs == [started |-> FALSE, skipped |-> FALSE, strategies |-> {},
               installedAtStart |-> FALSE,
               writes |-> 0, downloads |-> 0, pkgCalls |-> 0,
               helper |-> "none", helperOut |-> "none",
               manual |-> FALSE, manualFailed |-> FALSE]

SteamInit ==
    /\ stOs \in {"linux", "windows", "unknown"}
    /\ stDistro \in (IF stOs = "linux" THEN Distros ELSE {"none"})
    /\ stPms \in (IF stOs = "linux" THEN SUBSET {"yay", "paru"} ELSE {{}})
    /\ stFs \in {[p \in SteamPaths |->
                    IF pre /\ p = "steamcmd_dir" THEN "dir"
                    ELSE IF pre /\ p \in {"home_exe", "home_rest"} THEN "xfile"
                    ELSE "none"] : pre \in BOOLEAN}
    /\ stArchive \in SteamArchives
    /\ stExe = "home_exe"
    /\ stPc = "idle"
    /\ stIdx = 0
    /\ stResult = "none"
    /\ stPrev = "none"
    /\ stObs = SteamNoObs
    /\ stCalls = 0

SteamReturn(res) ==
    /\ stPc' = "idle"
    /\ stResult' = res

Wrote(obs, n) == [obs EXCEPT !.writes = @ + n]
Pkg(obs) == [obs EXCEPT !.pkgCalls = @ + 1, !.writes = @ + 1]

\* The first step of a strategy.
FirstPc(strategy, pms) ==
    CASE strategy = "_install_arch" ->
            IF aur_helper(pms) # "none" THEN "arch_helper" ELSE "arch_basedevel"
      [] strategy = "_install_debian" -> "deb_i386"
      [] OTHER -> "archive_mkdir"

\* install(), lines 48-60, with the dispatch of _install_linux and
\* _install_fedora (lines 62-81, 201-206).
SteamInstall ==
    /\ stPc = "idle"
    /\ stCalls < MaxSteamCalls
    /\ stCalls' = stCalls + 1
    /\ stPrev' = stResult
    /\ stIdx' = 0
    /\ LET obs == [SteamNoObs EXCEPT !.started = TRUE,
                                     !.installedAtStart = (stFs[stExe] # "none")]
       IN
       IF steam_is_installed(stFs, stExe)
       THEN /\ SteamReturn("true")
            /\ stObs' = [obs EXCEPT !.skipped = TRUE]
       ELSE IF stOs = "linux"
       THEN LET strategy == install_linux(stDistro)
                entered == {"_install_linux", strategy}
                           \cup (IF strategy = "_install_fedora"
                                 THEN {"_install_linux_generic"} ELSE {})
            IN  /\ stPc' = FirstPc(strategy, stPms)
                /\ stResult' = "none"
                /\ stObs' = [obs EXCEPT !.strategies = entered]
       ELSE IF stOs = "windows"
       THEN /\ stPc' = "archive_mkdir"
            /\ stResult' = "none"
            /\ stObs' = [obs EXCEPT !.strategies = {"_install_windows"}]
       ELSE /\ SteamReturn("false")
            /\ stObs' = obs
    /\ UNCHANGED <<stOs, stDistro, stPms, stFs, stArchive, stExe>>
    /\ Frame("steam")

\* _install_arch, lines 94-107: the AUR helper installs the package.
ArchHelper(out) ==
    /\ stPc = "arch_helper"
    /\ out \in {"ok", "fail"}
    /\ stObs' = [Pkg(stObs) EXCEPT !.helper = aur_helper(stPms), !.helperOut = out]
    /\ IF out = "ok"
       THEN /\ stFs' = [stFs EXCEPT !["/usr/bin/steamcmd"] = "xfile"]
            /\ stExe' = "/usr/bin/steamcmd"
            /\ SteamReturn("true")
       ELSE /\ stPc' = "arch_basedevel"
            /\ UNCHANGED <<stFs, stExe, stResult>>
    /\ UNCHANGED <<stOs, stDistro, stPms, stArchive, stIdx, stPrev, stCalls>>
    /\ Frame("steam")

\* _install_arch, lines 112-119: pacman ensures base-devel; a non-zero exit
\* is only a warning.
ArchBaseDevel(out) ==
    /\ stPc = "arch_basedevel"
    /\ stObs' = [Pkg(stObs) EXCEPT !.manual = TRUE]
    /\ IF out = "missing"
       THEN SteamReturn("raise")
       ELSE /\ stPc' = "arch_clone"
            /\ UNCHANGED stResult
    /\ UNCHANGED <<stOs, stDistro, stPms, stFs, stArchive, stExe, stIdx, stPrev, stCalls>>
    /\ Frame("steam")

\* _install_arch, lines 122-130: /tmp/steamcmd-aur is removed and cloned.
ArchClone(out) ==
    /\ stPc = "arch_clone"
    /\ stObs' = [Wrote(stObs, 1) EXCEPT !.manualFailed = (out = "fail")]
    /\ CASE out = "ok" ->
              /\ stFs' = [stFs EXCEPT !["aur_dir"] = "dir"]
              /\ stPc' = "arch_makepkg"
              /\ UNCHANGED stResult
         [] out = "fail" ->
              /\ stFs' = [stFs EXCEPT !["aur_dir"] = "none"]
              /\ SteamReturn("false")
         [] OTHER ->
              /\ stFs' = [stFs EXCEPT !["aur_dir"] = "none"]
              /\ SteamReturn("raise")
    /\ UNCHANGED <<stOs, stDistro, stPms, stArchive, stExe, stIdx, stPrev, stCalls>>
    /\ Frame("steam")

\* _install_arch, lines 133-145: makepkg builds and installs the package.
ArchMakepkg(out) ==
    /\ stPc = "arch_makepkg"
    /\ stObs' = [Pkg(stObs) EXCEPT !.manualFailed = (out = "fail")]
    /\ CASE out = "ok" ->
              /\ stFs' = [stFs EXCEPT !["/usr/bin/steamcmd"] = "xfile"]
              /\ stExe' = "/usr/bin/steamcmd"
              /\ SteamReturn("true")
         [] out = "fail" ->
              /\ SteamReturn("false")
              /\ UNCHANGED <<stFs, stExe>>
         [] OTHER ->
              /\ SteamReturn("raise")
              /\ UNCHANGED <<stFs, stExe>>
    /\ UNCHANGED <<stOs, stDistro, stPms, stArchive, stIdx, stPrev, stCalls>>
    /\ Frame("steam")

\* _install_debian, lines 151-158: dpkg --add-architecture i386.
DebI386(out) ==
    /\ stPc = "deb_i386"
    /\ stObs' = Pkg(stObs)
    /\ CASE out = "ok" ->
              /\ stPc' = IF stDistro = "ubuntu" THEN "deb_multiverse" ELSE "deb_update"
              /\ UNCHANGED stResult
         [] out = "fail" -> SteamReturn("false")
         [] OTHER -> SteamReturn("raise")
    /\ UNCHANGED <<stOs, stDistro, stPms, stFs, stArchive, stExe, stIdx, stPrev, stCalls>>
    /\ Frame("steam")

\* _install_debian, lines 161-170: add-apt-repository multiverse (Ubuntu); a
\* non-zero exit is only a warning.
DebMultiverse(out) ==
    /\ stPc = "deb_multiverse"
    /\ stObs' = Pkg(stObs)
    /\ IF out = "missing"
       THEN SteamReturn("raise")
       ELSE /\ stPc' = "deb_update"
            /\ UNCHANGED stResult
    /\ UNCHANGED <<stOs, stDistro, stPms, stFs, stArchive, stExe, stIdx, stPrev, stCalls>>
    /\ Frame("steam")

\* _install_debian, lines 173-178: apt update.
DebUpdate(out) ==
    /\ stPc = "deb_update"
    /\ stObs' = Pkg(stObs)
    /\ CASE out = "ok" ->
              /\ stPc' = "deb_install"
              /\ UNCHANGED stResult
         [] out = "fail" -> SteamReturn("false")
         [] OTHER -> SteamReturn("raise")
    /\ UNCHANGED <<stOs, stDistro, stPms, stFs, stArchive, stExe, stIdx, stPrev, stCalls>>
    /\ Frame("steam")

debian_exe_AlwaysGames(fs) == "/usr/games/steamcmd"

\* _install_debian, lines 189-193: where steamcmd_exe points after apt.
debian_exe(fs) ==
    IF fs["/usr/games/steamcmd"] # "none" THEN "/usr/games/steamcmd"
    ELSE "/usr/bin/steamcmd"

\* _install_debian, lines 181-199: apt install steamcmd; the package puts the
\* binary at one of the two places the code looks at.
DebInstall(out, place) ==
    /\ stPc = "deb_install"
    /\ stObs' = Pkg(stObs)
    /\ CASE out = "ok" ->
              LET fs == [stFs EXCEPT ![place] = "xfile"]
              IN  /\ stFs' = fs
                  /\ stExe' = debian_exe(fs)
                  /\ SteamReturn("true")
         [] out = "fail" ->
              /\ SteamReturn("false")
              /\ UNCHANGED <<stFs, stExe>>
         [] OTHER ->
              /\ SteamReturn("raise")
              /\ UNCHANGED <<stFs, stExe>>
    /\ UNCHANGED <<stOs, stDistro, stPms, stArchive, stIdx, stPrev, stCalls>>
    /\ Frame("steam")

\* _install_linux_generic line 213, _install_windows line 250:
\* steamcmd_dir.mkdir, outside any try.
ArchiveMkdir(ok) ==
    /\ stPc = "archive_mkdir"
    /\ IF ok
       THEN /\ stFs' = [stFs EXCEPT !["steamcmd_dir"] = "dir"]
            /\ stObs' = Wrote(stObs, 1)
            /\ stPc' = "archive_download"
            /\ UNCHANGED stResult
       ELSE /\ SteamReturn("raise")
            /\ UNCHANGED <<stFs, stObs>>
    /\ UNCHANGED <<stOs, stDistro, stPms, stArchive, stExe, stIdx, stPrev, stCalls>>
    /\ Frame("steam")

\* _install_linux_generic lines 216-225, _install_windows lines 254-263:
\* urlretrieve of the archive into steamcmd_dir.
ArchiveDownload(ok) ==
    /\ stPc = "archive_download"
    /\ stObs' = [Wrote(stObs, 1) EXCEPT !.downloads = @ + 1]
    /\ IF ok
       THEN /\ stFs' = [stFs EXCEPT !["archive"] = "file"]
            /\ stPc' = "archive_extract"
            /\ UNCHANGED stResult
       ELSE /\ SteamReturn("false")
            /\ UNCHANGED stFs
    /\ UNCHANGED <<stOs, stDistro, stPms, stArchive, stExe, stIdx, stPrev, stCalls>>
    /\ Frame("steam")

\* _install_linux_generic lines 230-231, _install_windows lines 268-269:
\* extractall writes the next member.
ArchiveExtractMember ==
    /\ stPc = "archive_extract"
    /\ stIdx < Len(stArchive)
    /\ stIdx' = stIdx + 1
    /\ stFs' = [stFs EXCEPT ![stArchive[stIdx + 1]] = "file"]
    /\ stObs' = Wrote(stObs, 1)
    /\ UNCHANGED <<stOs, stDistro, stPms, stArchive, stExe, stPc, stResult, stPrev, stCalls>>
    /\ Frame("steam")

\* _install_linux_generic lines 241-243, _install_windows lines 276-278:
\* extraction raises; the exception is caught and the install fails.
ArchiveExtractFails ==
    /\ stPc = "archive_extract"
    /\ stIdx < Len(stArchive)
    /\ SteamReturn("false")
    /\ UNCHANGED <<stOs, stDistro, stPms, stFs, stArchive, stExe, stIdx, stPrev, stObs, stCalls>>
    /\ Frame("steam")

\* _install_linux_generic lines 234-240 (chmod 0o755, unlink),
\* _install_windows lines 272-275 (unlink).
ArchiveFinish(chmodOk) ==
    /\ stPc = "archive_extract"
    /\ stIdx = Len(stArchive)
    /\ IF stOs = "linux" /\ ~chmodOk
       THEN /\ SteamReturn("false")
            /\ UNCHANGED <<stFs, stObs>>
       ELSE /\ stFs' = [stFs EXCEPT !["home_exe"] = IF stOs = "linux" THEN "xfile" ELSE @,
                                    !["archive"] = "none"]
            /\ stObs' = Wrote(stObs, 1)
            /\ SteamReturn("true")
    /\ stIdx' = 0
    /\ UNCHANGED <<stOs, stDistro, stPms, stArchive, stExe, stPrev, stCalls>>
    /\ Frame("steam")

\* The run is interrupted in the middle of install().
SteamInterrupt ==
    /\ stPc # "idle"
    /\ SteamReturn("interrupted")
    /\ UNCHANGED <<stOs, stDistro, stPms, stFs, stArchive, stExe, stIdx, stPrev, stObs, stCalls>>
    /\ Frame("steam")

SteamNext ==
    \/ SteamInstall
    \/ \E out \in RunOutcomes : ArchHelper(out)
    \/ \E out \in RunOutcomes : ArchBaseDevel(out)
    \/ \E out \in RunOutcomes : ArchClone(out)
    \/ \E out \in RunOutcomes : ArchMakepkg(out)
    \/ \E out \in RunOutcomes : DebI386(out)
    \/ \E out \in RunOutcomes : DebMultiverse(out)
    \/ \E out \in RunOutcomes : DebUpdate(out)
    \/ \E out \in RunOutcomes, place \in {"/usr/games/steamcmd", "/usr/bin/steamcmd"} :
            DebInstall(out, place)
    \/ \E ok \in BOOLEAN : ArchiveMkdir(ok)
    \/ \E ok \in BOOLEAN : ArchiveDownload(ok)
    \/ ArchiveExtractMember
    \/ ArchiveExtractFails
    \/ \E ok \in BOOLEAN : ArchiveFinish(ok)
    \/ SteamInterrupt

(***************************************************************************)
(*                          ServerConfigurator                             *)
(***************************************************************************)
\* _generate_hvh_config: the document is the template with its four
\* arguments filled in.
generate_hvh_config(hostname, rcon_password, sv_password, tickrate) ==
    [kind |-> "hvh", hostname |-> hostname, sv_password |-> sv_password,
     rcon_password |-> rcon_password, tickrate |-> tickrate]

\* What a filesystem operation does: a copy or a write succeeds, fails before
\* the destination is opened, or fails after the destination was truncated.
IoOutcomes == {"ok", "fails", "fails_partway"}

create_hvh_config_KeepsOldBackup(cfg, backup, doc, copyOut, writeOut) ==
    LET b == IF backup = [kind |-> "absent"] THEN cfg ELSE backup
    IN  IF cfg # [kind |-> "absent"] /\ copyOut # "ok"
        THEN [cfg |-> cfg, backup |-> backup, result |-> "false"]
        ELSE IF writeOut = "ok"
        THEN [cfg |-> doc, backup |-> b, result |-> "true"]
        ELSE [cfg |-> cfg, backup |-> b, result |-> "false"]

create_hvh_config_WritesFirst(cfg, backup, doc, copyOut, writeOut) ==
    IF writeOut # "ok"
    THEN [cfg |-> IF writeOut = "fails" THEN cfg ELSE [kind |-> "truncated"],
          backup |-> backup, result |-> "false"]
    ELSE IF cfg # [kind |-> "absent"] /\ copyOut # "ok"
    THEN [cfg |-> doc, backup |-> backup, result |-> "false"]
    ELSE [cfg |-> doc, backup |-> IF cfg # [kind |-> "absent"] THEN cfg ELSE backup,
          result |-> "true"]

\* create_hvh_config, lines 54-70: the backup copy, then the write.
create_hvh_config(cfg, backup, doc, copyOut, writeOut) ==
    IF cfg # [kind |-> "absent"] /\ copyOut # "ok"
    THEN [cfg |-> cfg,
          backup |-> IF copyOut = "fails_partway" THEN [kind |-> "truncated"] ELSE backup,
          result |-> "false"]
    ELSE LET b == IF cfg # [kind |-> "absent"] THEN cfg ELSE backup
         IN  CASE writeOut = "ok" -> [cfg |-> doc, backup |-> b, result |-> "true"]
               [] writeOut = "fails" -> [cfg |-> cfg, backup |-> b, result |-> "false"]
               [] OTHER -> [cfg |-> [kind |-> "truncated"], backup |-> b, result |-> "false"]

\* steam.inf is a sequence of tokens: "C=" and "S=" stand for the texts
\* ClientVersion= and ServerVersion=, "T" for 2000258, "v" for another
\* version, "x" for other text, "NL" for the line terminator; <<"absent">>
\* stands for a file that does not exist.
\* readlines(): the lines of a content, each with its terminator if it has one.
RECURSIVE readlines(_)
readlines(content) ==
    IF content = <<>> THEN <<>>
    ELSE LET n == CHOOSE i \in 1..Len(content) :
                    /\ content[i] = "NL" \/ i = Len(content)
                    /\ \A j \in 1..(i - 1) : content[j] # "NL"
         IN  <<SubSeq(content, 1, n)>> \o readlines(SubSeq(content, n + 1, Len(content)))

\* writelines(): the lines written one after the other.
RECURSIVE writelines(_)
writelines(lines) ==
    IF lines = <<>> THEN <<>> ELSE Head(lines) \o writelines(Tail(lines))

\* line.startswith(key)
startswith(line, key) == Len(line) >= 1 /\ line[1] = key

\* set_legacy_version, lines 296-323: the key lines are rewritten in place and
\* the missing keys are appended.
patch_lines(lines) ==
    LET patched == [i \in 1..Len(lines) |->
                        IF startswith(lines[i], "C=") THEN <<"C=", "T", "NL">>
                        ELSE IF startswith(lines[i], "S=") THEN <<"S=", "T", "NL">>
                        ELSE lines[i]]
        hasC == \E i \in 1..Len(lines) : startswith(lines[i], "C=")
        hasS == \E i \in 1..Len(lines) : startswith(lines[i], "S=")
    IN  patched \o (IF hasC THEN <<>> ELSE << <<"C=", "T", "NL">> >>)
                \o (IF hasS THEN <<>> ELSE << <<"S=", "T", "NL">> >>)

set_legacy_version_WritesFirst(inf, backup, copyOut, writeOut) ==
    IF inf = <<"absent">> THEN [inf |-> inf, backup |-> backup, result |-> "false"]
    ELSE IF writeOut # "ok" THEN [inf |-> <<>>, backup |-> backup, result |-> "false"]
    ELSE LET new == writelines(patch_lines(readlines(inf)))
         IN  IF copyOut = "ok" THEN [inf |-> new, backup |-> new, result |-> "true"]
             ELSE [inf |-> new, backup |-> backup, result |-> "false"]

\* set_legacy_version, lines 282-336.
set_legacy_version(inf, backup, copyOut, writeOut) ==
    IF inf = <<"absent">> THEN [inf |-> inf, backup |-> backup, result |-> "false"]
    ELSE IF copyOut # "ok"
    THEN [inf |-> inf,
          backup |-> IF copyOut = "fails_partway" THEN <<>> ELSE backup,
          result |-> "false"]
    ELSE CASE writeOut = "ok" ->
                [inf |-> writelines(patch_lines(readlines(inf))), backup |-> inf,
                 result |-> "true"]
           [] writeOut = "fails" -> [inf |-> inf, backup |-> inf, result |-> "false"]
           [] OTHER -> [inf |-> <<>>, backup |-> inf, result |-> "false"]

\* The descriptors the model starts from: up to MaxInfLines lines, the last
\* one with or without its terminator.
InfLineBodies == {<<"C=", "v">>, <<"S=", "v">>, <<"x">>, <<>>}

RECURSIVE InfContents(_)
InfContents(n) ==
    IF n = 0 THEN {<<>>}
    ELSE InfContents(n - 1)
         \cup {c \o b \o <<"NL">> : c \in {d \in InfContents(n - 1) : d = <<>> \/ d[Len(d)] = "NL"},
                                    b \in InfLineBodies}
         \cup {c \o b : c \in {d \in InfContents(n - 1) : d = <<>> \/ d[Len(d)] = "NL"},
                        b \in InfLineBodies \ {<<>>}}

NoCall == [op |-> "none", result |-> "none", copy |-> "none", write |-> "none",
           doc |-> [kind |-> "absent"],
           preCfg |-> [kind |-> "absent"], preBackup |-> [kind |-> "absent"],
           preInf |-> <<"absent">>, preInfBackup |-> <<"absent">>]

ConfigInit ==
    /\ serverCfg \in {[kind |-> "absent"], [kind |-> "user"],
                      generate_hvh_config("VileHvH Server", "change_me", "", 128)}
    /\ serverCfgBackup \in {[kind |-> "absent"], [kind |-> "older"]}
    /\ cfgDir \in (IF serverCfg = [kind |-> "absent"] /\ serverCfgBackup = [kind |-> "absent"]
                   THEN BOOLEAN ELSE {TRUE})
    /\ steamInf = <<"C=", "v", "NL">>
    /\ steamInfBackup = <<"absent">>
    /\ cfgLast = NoCall
    /\ cfgCalls = 0

InfInit ==
    /\ serverCfg = [kind |-> "absent"]
    /\ serverCfgBackup = [kind |-> "absent"]
    /\ cfgDir = TRUE
    /\ steamInf \in InfContents(MaxInfLines) \cup {<<"absent">>}
    /\ steamInfBackup \in {<<"absent">>, <<"x", "NL">>}
    /\ cfgLast = NoCall
    /\ cfgCalls = 0

\* create_hvh_config, lines 44-70.
CreateHvhConfig(hostname, tickrate, mkdirOk, copyOut, writeOut) ==
    /\ cfgCalls < MaxCfgCalls
    /\ cfgCalls' = cfgCalls + 1
    /\ LET doc == generate_hvh_config(hostname, "change_me", "", tickrate)
           r == create_hvh_config(serverCfg, serverCfgBackup, doc, copyOut, writeOut)
           call == [NoCall EXCEPT !.op = "create_hvh_config", !.doc = doc,
                                  !.preCfg = serverCfg, !.preBackup = serverCfgBackup,
                                  !.copy = copyOut, !.write = writeOut]
       IN  IF ~cfgDir /\ ~mkdirOk
           THEN /\ cfgLast' = [call EXCEPT !.result = "raise"]
                /\ UNCHANGED <<cfgDir, serverCfg, serverCfgBackup>>
           ELSE /\ cfgDir' = TRUE
                /\ serverCfg' = r.cfg
                /\ serverCfgBackup' = r.backup
                /\ cfgLast' = [call EXCEPT !.result = r.result]
    /\ UNCHANGED <<steamInf, steamInfBackup>>
    /\ Frame("config")

\* set_legacy_version, lines 280-336.
SetLegacyVersion(copyOut, writeOut) ==
    /\ cfgCalls < MaxCfgCalls
    /\ cfgCalls' = cfgCalls + 1
    /\ LET r == set_legacy_version(steamInf, steamInfBackup, copyOut, writeOut)
       IN  /\ steamInf' = r.inf
           /\ steamInfBackup' = r.backup
           /\ cfgLast' = [NoCall EXCEPT !.op = "set_legacy_version",
                                        !.result = r.result,
                                        !.copy = copyOut, !.write = writeOut,
                                        !.preInf = steamInf,
                                        !.preInfBackup = steamInfBackup]
    /\ UNCHANGED <<cfgDir, serverCfg, serverCfgBackup>>
    /\ Frame("config")

ConfigNext ==
    \E hostname \in {"VileHvH Server", "My HvH"}, tickrate \in {64, 128},
       mkdirOk \in BOOLEAN, copyOut \in IoOutcomes, writeOut \in IoOutcomes :
        CreateHvhConfig(hostname, tickrate, mkdirOk, copyOut, writeOut)

InfNext ==
    \E copyOut \in IoOutcomes, writeOut \in IoOutcomes :
        SetLegacyVersion(copyOut, writeOut)

(***************************************************************************)
(*   Plugin installation: install_plugin of scripts/install_plugins.py     *)
(*   ("script") and one iteration of the plugin loop of setup.py ("setup") *)
(***************************************************************************)
clone_from_github_LeaksOnTimeout(dirs, temp, outcome) ==
    CASE outcome = "ok" -> [dirs |-> dirs, ret |-> temp]
      [] outcome = "clone_timeout" -> [dirs |-> dirs, ret |-> 0]
      [] OTHER -> [dirs |-> dirs \ {temp}, ret |-> 0]

\* clone_from_github, lines 91-119: the directory on success, None (0) and
\* the directory removed on every failure.
clone_from_github(dirs, temp, outcome) ==
    IF outcome = "ok" THEN [dirs |-> dirs, ret |-> temp]
    ELSE [dirs |-> dirs \ {temp}, ret |-> 0]

install_plugin_from_directory_NoSourcemodCheck(sm, hasAddons, mergeOk) ==
    IF ~hasAddons THEN "marker_missing"
    ELSE IF ~mergeOk THEN "merge_fails"
    ELSE "ok"

install_plugin_from_directory_NoMarkerCheck(sm, hasAddons, mergeOk) ==
    IF ~sm THEN "no_sourcemod"
    ELSE IF ~mergeOk THEN "merge_fails"
    ELSE "ok"

\* PluginManager.install_plugin_from_directory: the path it takes.
install_plugin_from_directory(sm, hasAddons, mergeOk) ==
    IF ~sm THEN "no_sourcemod"
    ELSE IF ~hasAddons THEN "marker_missing"
    ELSE IF ~mergeOk THEN "merge_fails"
    ELSE "ok"

\* install_from_directory of install_plugins.py: the path it takes.
install_from_directory(sm, dirExists, hasAddons, mergeOk) ==
    IF ~dirExists THEN "dir_missing"
    ELSE IF ~hasAddons THEN "marker_missing"
    ELSE install_plugin_from_directory(sm, hasAddons, mergeOk)

\* The files a plugin tree can hold under addons/sourcemod, each a pair of
\* its directory and its name.
PluginFiles == {<<"plugins", "a.smx">>, <<"scripting", "a.sp">>}

merge_FirstOnly(target, order, failAt) ==
    IF order = <<>> THEN target
    ELSE [dirs |-> target.dirs \cup {Head(order)[1]},
          files |-> [target.files EXCEPT ![Head(order)] = "new"]]

merge_ContinuesAfterFailure(target, order, failAt) ==
    [dirs |-> target.dirs \cup {order[i][1] : i \in 1..Len(order)},
     files |-> [f \in DOMAIN target.files |->
                  IF \E i \in 1..Len(order) : order[i] = f /\ i # failAt
                  THEN "new" ELSE target.files[f]]]

\* install_plugin_from_directory, lines 120-131: the files of the plugin tree
\* are copied in the order rglob yields them, each after its directory has
\* been created; the copy numbered failAt raises (0: none does).
RECURSIVE merge(_, _, _)
merge(target, order, failAt) ==
    IF order = <<>> THEN target
    ELSE LET made == [target EXCEPT !.dirs = @ \cup {Head(order)[1]}]
         IN  IF failAt = 1 THEN made
             ELSE merge([made EXCEPT !.files[Head(order)] = "new"], Tail(order),
                        IF failAt = 0 THEN 0 ELSE failAt - 1)

NoAttempt == [variant |-> "none", remote |-> FALSE, temp |-> 0,
              path |-> "none", result |-> "none", hasAddons |-> FALSE,
              order |-> <<>>, failAt |-> 0,
              before |-> [dirs |-> {}, files |-> <<>>]]

PluginInit ==
    /\ tempDirs = {}
    /\ plSm \in BOOLEAN
    /\ plTarget \in
          {[dirs |-> IF plSm THEN d \cup {"configs"} ELSE {},
            files |-> [f \in PluginFiles \cup {<<"configs", "admins_simple.ini">>} |->
                          IF ~plSm THEN "none"
                          ELSE IF f \in old \/ f[1] = "configs" THEN "old"
                          ELSE "none"]] :
              d \in (IF plSm THEN SUBSET {"plugins", "scripting"} ELSE {{}}),
              old \in (IF plSm THEN SUBSET PluginFiles ELSE {{}})}
    /\ \A f \in PluginFiles : plTarget.files[f] # "none" => f[1] \in plTarget.dirs
    /\ plPc = "idle"
    /\ plAttempt = NoAttempt
    /\ plCalls = 0

PluginReturn(path, result) ==
    /\ plPc' = "idle"
    /\ plAttempt' = [plAttempt EXCEPT !.path = path, !.result = result]

\* install_plugin up to the clone (lines 161-167 and 83-89), or the loop body
\* of setup.py up to the clone (lines 284-289).  mkdtemp creates a directory
\* that did not exist.
PluginStart(variant, remote, mkdtempOk) ==
    /\ plPc = "idle"
    /\ plCalls < MaxPluginCalls
    /\ variant = "setup" => remote
    /\ plCalls' = plCalls + 1
    /\ UNCHANGED <<plSm, plTarget>>
    /\ LET a == [NoAttempt EXCEPT !.variant = variant, !.remote = remote]
       IN  IF ~remote
           THEN /\ plAttempt' = [a EXCEPT !.path = "running"]
                /\ plPc' = "install"
                /\ UNCHANGED tempDirs
           ELSE IF ~mkdtempOk
           THEN /\ plAttempt' = [a EXCEPT !.path = "mkdtemp_fails",
                                          !.result = IF variant = "script" THEN "raise"
                                                     ELSE "false"]
                /\ plPc' = "idle"
                /\ UNCHANGED tempDirs
           ELSE /\ plAttempt' = [a EXCEPT !.path = "running", !.temp = plCalls + 1]
                /\ tempDirs' = tempDirs \cup {plCalls + 1}
                /\ plPc' = "clone"
    /\ Frame("plugin")

\* The git clone: lines 91-119 and 168-169 of install_plugins.py, lines
\* 290-305 of setup.py with its except and finally clauses.
PluginClone(outcome) ==
    /\ plPc = "clone"
    /\ UNCHANGED <<plSm, plTarget, plCalls>>
    /\ IF plAttempt.variant = "script"
       THEN LET r == clone_from_github(tempDirs, plAttempt.temp, outcome)
            IN  /\ tempDirs' = r.dirs
                /\ IF r.ret = 0
                   THEN PluginReturn(outcome, "false")
                   ELSE /\ plPc' = "install"
                        /\ UNCHANGED plAttempt
       ELSE IF outcome = "ok"
       THEN /\ plPc' = "install"
            /\ UNCHANGED <<tempDirs, plAttempt>>
       ELSE /\ tempDirs' = tempDirs \ {plAttempt.temp}
            /\ PluginReturn(outcome, "false")
    /\ Frame("plugin")

\* The installation from the staged or local directory and the finally
\* clause: lines 171-186 of install_plugins.py, lines 297-310 of setup.py.
PluginInstall(dirExists, hasAddons, order, failAt) ==
    /\ plPc = "install"
    /\ plAttempt.remote => dirExists
    /\ failAt <= Len(order)
    /\ hasAddons \/ order = <<>>
    /\ UNCHANGED <<plSm, plCalls>>
    /\ LET path == IF plAttempt.variant = "script"
                   THEN install_from_directory(plSm, dirExists, hasAddons, failAt = 0)
                   ELSE install_plugin_from_directory(plSm, hasAddons, failAt = 0)
       IN  /\ plPc' = "idle"
           /\ plAttempt' = [plAttempt EXCEPT
                               !.path = path,
                               !.result = IF path = "ok" THEN "true" ELSE "false",
                               !.hasAddons = hasAddons, !.order = order,
                               !.failAt = failAt, !.before = plTarget]
           /\ plTarget' = IF path \in {"ok", "merge_fails"}
                          THEN merge(plTarget, order, failAt)
                          ELSE plTarget
    /\ tempDirs' = IF plAttempt.temp # 0 /\ plAttempt.temp \in tempDirs
                   THEN tempDirs \ {plAttempt.temp}
                   ELSE tempDirs
    /\ Frame("plugin")

PluginNext ==
    \/ \E variant \in {"script", "setup"}, remote \in BOOLEAN, mkdtempOk \in BOOLEAN :
          PluginStart(variant, remote, mkdtempOk)
    \/ \E outcome \in {"ok", "clone_nonzero", "clone_timeout", "git_missing"} :
          PluginClone(outcome)
    \/ \E dirExists \in BOOLEAN, hasAddons \in BOOLEAN,
          order \in {<<>>, <<<<"plugins", "a.smx">>>>, <<<<"scripting", "a.sp">>>>,
                     <<<<"plugins", "a.smx">>, <<"scripting", "a.sp">>>>,
                     <<<<"scripting", "a.sp">>, <<"plugins", "a.smx">>>>},
          failAt \in 0..2 :
          PluginInstall(dirExists, hasAddons, order, failAt)

(***************************************************************************)
(*   The plugin source of scripts/install_plugins.py.  A source is the     *)
(*   sequence of its parts: a scheme ("https://", "http://", "git@"), the  *)
(*   host with owner and repository, and then any number of "/" and        *)
(*   ".git"; a local path is one part.                                     *)
(***************************************************************************)
\* is_github_url, lines 50-57: re.match of three patterns, each matching a
\* prefix of the source (no pattern ends with $).
is_github_url(source) ==
    \/ Len(source) >= 2 /\ source[1] \in {"https://", "http://"}
          /\ source[2] = "github.com/owner/repo"
    \/ Len(source) >= 3 /\ source[1] = "git@" /\ source[2] = "github.com:owner/repo"
          /\ source[3] = ".git"
    \/ Len(source) >= 1 /\ source[1] = "github.com/owner/repo"

\* str.rstrip('/'), line 63.
RECURSIVE rstrip(_)
rstrip(url) ==
    IF url # <<>> /\ url[Len(url)] = "/" THEN rstrip(SubSeq(url, 1, Len(url) - 1))
    ELSE url

\* normalize_github_url, lines 60-71.
normalize_github_url(url) ==
    LET stripped == rstrip(url)
        cut == IF stripped # <<>> /\ stripped[Len(stripped)] = ".git"
               THEN SubSeq(stripped, 1, Len(stripped) - 1)
               ELSE stripped
    IN  IF cut # <<>> /\ cut[1] \in {"http://", "https://", "git@"}
        THEN cut
        ELSE <<"https://">> \o cut

UrlInit ==
    /\ urlSource \in
          {head \o tail :
              head \in {<<"https://", "github.com/owner/repo">>,
                        <<"http://", "github.com/owner/repo">>,
                        <<"git@", "github.com:owner/repo">>,
                        <<"github.com/owner/repo">>,
                        <<"plugins/local">>},
              tail \in UNION {[1..n -> {"/", ".git"}] : n \in 0..MaxTail}}
    /\ urlDone = FALSE
    /\ urlResult = <<>>

\* install_plugin, lines 165-167, and clone_from_github, line 84: a source
\* that is_github_url accepts is normalized before it is cloned; any other
\* is used as a local path.
ClassifySource ==
    /\ ~urlDone
    /\ urlDone' = TRUE
    /\ urlResult' = IF is_github_url(urlSource) THEN normalize_github_url(urlSource)
                    ELSE urlSource
    /\ UNCHANGED urlSource
    /\ Frame("url")

UrlNext == ClassifySource

(***************************************************************************)
(*                  detect_package_managers of system_detect.py            *)
(***************************************************************************)
detect_package_managers_NoSentinel(found) ==
    LET In(m) == m \in found
    IN  SelectSeq(<<"yay", "paru", "pacman", "apt", "dnf", "winget", "choco">>, In)

\* detect_package_managers, lines 129-172: each candidate is tested in turn
\* and appended when found; UNKNOWN is appended to a list left empty.
detect_package_managers(found) ==
    LET In(m) == m \in found
        managers == SelectSeq(<<"yay", "paru", "pacman", "apt", "dnf", "winget", "choco">>,
                              In)
    IN  IF managers = <<>> THEN <<"unknown">> ELSE managers

DetectInit ==
    /\ dtFound \in SUBSET {"yay", "paru", "pacman", "apt", "dnf", "winget", "choco"}
    /\ dtDone = FALSE
    /\ dtManagers = <<>>

\* detect_package_managers is called and returns.
DetectPackageManagers ==
    /\ ~dtDone
    /\ dtDone' = TRUE
    /\ dtManagers' = detect_package_managers(dtFound)
    /\ UNCHANGED dtFound
    /\ Frame("detect")

DetectNext == DetectPackageManagers

(***************************************************************************)
(*                             CSGOInstaller                               *)
(***************************************************************************)
\* The files app_update 740 delivers, "." being the directory itself.
Payload(os) ==
    IF os = "windows" THEN {".", "srcds.exe", "bin"}
    ELSE {".", "srcds_run", "bin", "libgcc_s.so.1", "libstdc++.so.6"}

\* is_installed, lines 270-278.
cs_is_installed(files, os) ==
    (IF os = "windows" THEN "srcds.exe" ELSE "srcds_run") \in files

fix_bundled_libraries_KeepsOriginals(files, failing) ==
    IF "bin" \notin files THEN files
    ELSE files \cup {l \o ".bak" : l \in {l \in {"libgcc_s.so.1", "libstdc++.so.6"} :
                                             l \in files /\ l \notin failing}}

\* _fix_bundled_libraries, lines 226-268: the libraries found in bin are
\* renamed to <name>.bak, except those whose rename fails.
fix_bundled_libraries(files, failing) ==
    IF "bin" \notin files THEN files
    ELSE LET renamed == {l \in {"libgcc_s.so.1", "libstdc++.so.6"} :
                            l \in files /\ l \notin failing}
         IN  (files \ renamed) \cup {l \o ".bak" : l \in renamed}

install_server_result_SuccessLineOverrides(rc, sawSuccess) ==
    IF rc = "ok" \/ sawSuccess THEN "true" ELSE "false"

install_server_result_NeedsSuccessLine(rc, sawSuccess) ==
    IF rc = "ok" /\ sawSuccess THEN "true" ELSE "false"

\* install_server, lines 208-220: the result is decided by the exit code.
install_server_result(rc, sawSuccess) ==
    IF rc = "ok" THEN "true" ELSE "false"

NoInstallCall == [validate |-> FALSE, lines |-> 0, sawSuccess |-> FALSE,
                  installedBefore |-> FALSE, failing |-> {},
                  emitted |-> 0, pending |-> <<>>]

\* The sequence main of setup.py runs on a fresh target (lines 192-226):
\* set_install_directory (optional), configure_install_dir, login of a first
\* session with a password, install_server with validate, every SteamCMD
\* invocation exiting 0 and app_update placing the payload.  The value is the
\* number of fetch-tool steps of the sequence completed so far, 4 once the
\* calls made are not that sequence.
ScenarioStep(s, op, arg, rc, cond) ==
    CASE op = "set_install_directory" /\ s = 0 /\ cond -> 0
      [] op = "configure_install_dir" /\ s = 0 /\ rc = "ok" -> 1
      [] op = "login" /\ s = 1 /\ arg = "first_password" /\ rc = "ok" -> 2
      [] op = "install_server" /\ s = 2 /\ arg = "validate" /\ rc = "ok" /\ cond -> 3
      [] OTHER -> 4

CsgoInit ==
    /\ csOs \in {"linux", "windows"}
    /\ csDir = "default"
    /\ csFs \in {[d \in {"default", "custom"} |-> IF d = "default" THEN f ELSE {}] :
                    f \in {{}, {"."}, Payload(csOs)}}
    /\ csFirstLogin = FALSE
    /\ csPc = "idle"
    /\ csCall = NoInstallCall
    /\ csLast = [op |-> "none", arg |-> "none", rc |-> "none", result |-> "none",
                      cmd |-> <<>>]
    /\ csOps = 0
    /\ csScenario = IF csFs["default"] \subseteq {"."} THEN 0 ELSE 4

login_command_CachedPassesPassword(arg) ==
    IF arg = "first_no_password" THEN <<>>
    ELSE IF arg \in {"first_password", "cached_password"}
    THEN <<"steamcmd_path", "+force_install_dir", "+login", "username", "password">>
    ELSE <<"steamcmd_path", "+force_install_dir", "+login", "username", "+quit">>

\* login, lines 89-92, 102-106 and 139-144: the words of the SteamCMD command
\* line the call builds, none when it returns before building one.  The
\* argument names the call: is_first_login, and whether a password is given.
login_command(arg) ==
    IF arg = "first_no_password" THEN <<>>
    ELSE IF arg = "first_password"
    THEN <<"steamcmd_path", "+force_install_dir", "+login", "username", "password">>
    ELSE <<"steamcmd_path", "+force_install_dir", "+login", "username", "+quit">>

\* A call returns: it becomes the last completed call.
Logged(op, arg, rc, result, cond) ==
    /\ csLast' = [op |-> op, arg |-> arg, rc |-> rc, result |-> result,
                  cmd |-> IF op = "login" THEN login_command(arg) ELSE <<>>]
    /\ csScenario' = ScenarioStep(csScenario, op, arg, rc, cond)

\* set_install_directory, lines 33-44.
SetInstallDirectory(custom, mkdirOk) ==
    /\ csPc = "idle"
    /\ csOps < MaxCsgoOps
    /\ csOps' = csOps + 1
    /\ LET dir == IF custom THEN "custom" ELSE csDir
       IN  /\ csDir' = dir
           /\ IF mkdirOk \/ "." \in csFs[dir]
              THEN /\ csFs' = [csFs EXCEPT ![dir] = @ \cup {"."}]
                   /\ Logged("set_install_directory", dir, "none", "none",
                             csFs[dir] \subseteq {"."})
              ELSE /\ UNCHANGED csFs
                   /\ Logged("set_install_directory", dir, "none", "raise", FALSE)
    /\ UNCHANGED <<csOs, csFirstLogin, csPc, csCall>>
    /\ Frame("csgo")

\* configure_install_dir, lines 46-73.
ConfigureInstallDir(rc) ==
    /\ csPc = "idle"
    /\ csOps < MaxCsgoOps
    /\ csOps' = csOps + 1
    /\ Logged("configure_install_dir", csDir, rc,
              CASE rc = "ok" -> "true" [] rc = "fail" -> "false" [] OTHER -> "raise",
              TRUE)
    /\ UNCHANGED <<csOs, csDir, csFs, csFirstLogin, csPc, csCall>>
    /\ Frame("csgo")

\* login, lines 75-157.
Login(is_first_login, hasPassword, rc) ==
    /\ csPc = "idle"
    /\ csOps < MaxCsgoOps
    /\ csOps' = csOps + 1
    /\ IF is_first_login
       THEN IF ~hasPassword
            THEN /\ Logged("login", "first_no_password", "none", "false", TRUE)
                 /\ UNCHANGED csFirstLogin
            ELSE /\ Logged("login", "first_password", rc,
                           IF rc = "ok" THEN "true" ELSE "false", TRUE)
                 /\ csFirstLogin' = (csFirstLogin \/ rc = "ok")
       ELSE /\ Logged("login", IF hasPassword THEN "cached_password" ELSE "cached", rc,
                      CASE rc = "ok" -> "true" [] rc = "fail" -> "false"
                        [] OTHER -> "raise", TRUE)
            /\ UNCHANGED csFirstLogin
    /\ UNCHANGED <<csOs, csDir, csFs, csPc, csCall>>
    /\ Frame("csgo")

\* install_server, lines 171-195: the command is built and SteamCMD started.
InstallServerStart(validate, spawnOk) ==
    /\ csPc = "idle"
    /\ csOps < MaxCsgoOps
    /\ csOps' = csOps + 1
    /\ IF spawnOk
       THEN /\ csPc' = "streaming"
            /\ csCall' = [NoInstallCall EXCEPT
                            !.validate = validate,
                            !.installedBefore = cs_is_installed(csFs[csDir], csOs)]
            /\ csScenario' = IF csScenario = 2 /\ validate THEN 2 ELSE 4
            /\ UNCHANGED csLast
       ELSE /\ Logged("install_server", IF validate THEN "validate" ELSE "", "missing",
                      "false", FALSE)
            /\ UNCHANGED <<csPc, csCall>>
    /\ UNCHANGED <<csOs, csDir, csFs, csFirstLogin>>
    /\ Frame("csgo")

\* SteamCMD, running app_update, writes one file of the payload into the
\* directory named by +force_install_dir.
ServerPlace(f) ==
    /\ csPc = "streaming"
    /\ f \in Payload(csOs) \ csFs[csDir]
    /\ f \o ".bak" \notin csFs[csDir]
    /\ csFs' = [csFs EXCEPT ![csDir] =
                    @ \cup {".", f} \cup (IF f \in {"libgcc_s.so.1", "libstdc++.so.6"}
                                          THEN {"bin"} ELSE {})]
    /\ UNCHANGED <<csOs, csDir, csFirstLogin, csPc, csCall, csLast, csOps, csScenario>>
    /\ Frame("csgo")

\* SteamCMD writes one line to the pipe install_server opened (lines 187-195).
ServerEmit(line) ==
    /\ csPc = "streaming"
    /\ csCall.emitted < MaxLines
    /\ csCall' = [csCall EXCEPT !.emitted = @ + 1, !.pending = Append(@, line)]
    /\ UNCHANGED <<csOs, csDir, csFs, csFirstLogin, csPc, csLast, csOps, csScenario>>
    /\ Frame("csgo")

\* install_server, lines 198-206: one line of SteamCMD's output is read.
ServerLine ==
    /\ csPc = "streaming"
    /\ csCall.pending # <<>>
    /\ csCall' = [csCall EXCEPT !.lines = @ + 1,
                                !.sawSuccess = @ \/ Head(csCall.pending) = "Success!",
                                !.pending = Tail(@)]
    /\ UNCHANGED <<csOs, csDir, csFs, csFirstLogin, csPc, csLast, csOps, csScenario>>
    /\ Frame("csgo")

\* install_server, lines 198-208: the loop over process.stdout ends when
\* SteamCMD has closed the pipe and every line written has been read; only
\* then is process.wait() called and returncode read.
stream_exhausted(pending) == pending = <<>>

\* install_server, lines 208-220: SteamCMD has exited.
InstallServerExit(rc, failing) ==
    /\ csPc = "streaming"
    /\ stream_exhausted(csCall.pending)
    /\ csPc' = "idle"
    /\ failing \subseteq csFs[csDir]
    /\ (rc # "ok" \/ csOs # "linux") => failing = {}
    /\ csCall' = [csCall EXCEPT !.failing = failing]
    /\ LET result == install_server_result(rc, csCall.sawSuccess)
       IN  /\ Logged("install_server", IF csCall.validate THEN "validate" ELSE "", rc, result,
                     Payload(csOs) \subseteq csFs[csDir])
           /\ csFs' = IF result = "true" /\ csOs = "linux"
                      THEN [csFs EXCEPT ![csDir] = fix_bundled_libraries(@, failing)]
                      ELSE csFs
    /\ UNCHANGED <<csOs, csDir, csFirstLogin, csOps>>
    /\ Frame("csgo")

\* install_server is interrupted while SteamCMD runs (KeyboardInterrupt is
\* not an Exception, so the except clause at line 222 does not catch it).
ServerInterrupt ==
    /\ csPc = "streaming"
    /\ csPc' = "idle"
    /\ Logged("install_server", IF csCall.validate THEN "validate" ELSE "", "none",
              "interrupted", FALSE)
    /\ UNCHANGED <<csOs, csDir, csFs, csFirstLogin, csCall, csOps>>
    /\ Frame("csgo")

CsgoNext ==
    \/ \E custom \in BOOLEAN, mkdirOk \in BOOLEAN : SetInstallDirectory(custom, mkdirOk)
    \/ \E rc \in RunOutcomes : ConfigureInstallDir(rc)
    \/ \E is_first_login \in BOOLEAN, hasPassword \in BOOLEAN, rc \in RunOutcomes :
          Login(is_first_login, hasPassword, rc)
    \/ \E validate \in BOOLEAN, spawnOk \in BOOLEAN : InstallServerStart(validate, spawnOk)
    \/ \E f \in {".", "srcds_run", "srcds.exe", "bin", "libgcc_s.so.1", "libstdc++.so.6"} :
          ServerPlace(f)
    \/ \E line \in {"Success!", "Update state", "other"} : ServerEmit(line)
    \/ ServerLine
    \/ \E rc \in {"ok", "fail"}, failing \in SUBSET {"libgcc_s.so.1", "libstdc++.so.6"} :
          InstallServerExit(rc, failing)
    \/ ServerInterrupt

(***************************************************************************)
(*   main of scripts/setup.py.  A stage operation is one step; what it     *)
(*   returns and what it leaves on disk are inputs of the step.            *)
(***************************************************************************)
steamcmd_step_SkipTrustsPath(skip, installResult, fs, exe) ==
    IF ~skip
    THEN IF installResult = "true" /\ steam_is_installed(fs, exe) THEN "continue" ELSE "1"
    ELSE "continue"

\* main, lines 163-190: whether the run goes on after the SteamCMD step.
\* fs is the filesystem after the step, exe the steamcmd_exe of the installer
\* (the default path when the step is skipped).
steamcmd_step(skip, installResult, fs, exe) ==
    IF ~skip
    THEN IF installResult = "true" /\ steam_is_installed(fs, exe) THEN "continue" ELSE "1"
    ELSE IF fs[exe] # "none" THEN "continue" ELSE "1"

SetupInit ==
    /\ suPc = "detect"
    /\ suOs = "none"
    /\ suArgs \in [skip_steamcmd : BOOLEAN, skip_csgo : BOOLEAN, skip_mods : BOOLEAN,
                   validate : BOOLEAN, install_dir : BOOLEAN]
    /\ suTool = [path |-> "none", exists |-> FALSE]
    /\ suLog = <<>>
    /\ suExit = "none"
    /\ suRoot = FALSE

\* A stage operation was called and has returned.
Called(op, result) ==
    suLog' = Append(suLog, [op |-> op, result |-> result, tool |-> suTool.exists,
                          root |-> suRoot])

\* main leaves with a return value.
Exit(code) ==
    /\ suPc' = "done"
    /\ suExit' = code

\* main, lines 151-160.
MainDetect(os) ==
    /\ suPc = "detect"
    /\ suOs' = os
    /\ IF os = "unknown" THEN Exit("1")
       ELSE suPc' = "steamcmd" /\ UNCHANGED suExit
    /\ UNCHANGED <<suRoot, suArgs, suTool, suLog>>
    /\ Frame("setup")

\* main, lines 163-190.  run_initial_update is called once the installation
\* is verified; an exception it does not catch ends main at line 422.
MainSteamcmd(installResult, fs, exe, updateRaises) ==
    /\ suPc = "steamcmd"
    /\ suArgs.skip_steamcmd => exe = "home_exe"
    /\ LET go == steamcmd_step(suArgs.skip_steamcmd, installResult, fs, exe)
       IN  /\ IF suArgs.skip_steamcmd THEN UNCHANGED suLog
              ELSE Called("install", installResult)
           /\ IF go = "continue" /\ ~(~suArgs.skip_steamcmd /\ updateRaises)
              THEN /\ suTool' = [path |-> exe, exists |-> fs[exe] # "none"]
                   /\ suPc' = "csgo_dir"
                   /\ UNCHANGED suExit
              ELSE /\ Exit("1")
                   /\ UNCHANGED suTool
    /\ UNCHANGED <<suRoot, suOs, suArgs>>
    /\ Frame("setup")

stage_ok_IgnoresFailure(result) == result # "raise"

\* main, lines 208, 216, 221: "if not <operation>: return 1"; an exception
\* ends main as well (line 422).
stage_ok(result) == result = "true"

\* main, lines 193-205 and 227-238: the installation directory.  It is
\* created (set_install_directory, csgo_installer.py lines 40-44) only when
\* it comes from --install-dir or from the interactive custom path.
MainCsgoDir(custom, present, ok) ==
    /\ suPc = "csgo_dir"
    /\ IF suArgs.skip_csgo
       THEN /\ ok = present
            /\ UNCHANGED suLog
            /\ suRoot' = present
            /\ IF ok THEN suPc' = "mods" /\ UNCHANGED suExit ELSE Exit("1")
       ELSE IF suArgs.install_dir \/ custom
       THEN /\ present => ok
            /\ Called("set_install_directory", IF ok THEN "none" ELSE "raise")
            /\ suRoot' = ok
            /\ IF ok THEN suPc' = "csgo_configure" /\ UNCHANGED suExit ELSE Exit("1")
       ELSE /\ ok
            /\ UNCHANGED <<suLog, suExit>>
            /\ suRoot' = present
            /\ suPc' = "csgo_configure"
    /\ UNCHANGED <<suOs, suArgs, suTool>>
    /\ Frame("setup")

\* main, lines 207-210.  SteamCMD cannot be started when no file is at
\* steamcmd_path.
MainConfigure(rc) ==
    /\ suPc = "csgo_configure"
    /\ (rc = "missing") = ~suTool.exists
    /\ LET result == CASE rc = "ok" -> "true" [] rc = "fail" -> "false" [] OTHER -> "raise"
       IN  /\ Called("configure_install_dir", result)
           /\ IF stage_ok(result) THEN suPc' = "csgo_login" /\ UNCHANGED suExit
              ELSE Exit("1")
    /\ UNCHANGED <<suRoot, suOs, suArgs, suTool>>
    /\ Frame("setup")

\* main, lines 212-218, with get_steam_credentials (lines 60-83).
MainLogin(is_first_login, hasPassword, rc) ==
    /\ suPc = "csgo_login"
    /\ (rc = "missing") = ~suTool.exists
    /\ LET result == IF is_first_login
                     THEN IF hasPassword /\ rc = "ok" THEN "true" ELSE "false"
                     ELSE CASE rc = "ok" -> "true" [] rc = "fail" -> "false"
                            [] OTHER -> "raise"
       IN  /\ Called("login", result)
           /\ IF stage_ok(result) THEN suPc' = "csgo_install" /\ UNCHANGED suExit
              ELSE Exit("1")
    /\ UNCHANGED <<suRoot, suOs, suArgs, suTool>>
    /\ Frame("setup")

\* main, lines 220-226.
MainInstallServer(rc, sawSuccess) ==
    /\ suPc = "csgo_install"
    /\ (rc = "missing") = ~suTool.exists
    /\ LET result == install_server_result(rc, sawSuccess)
       IN  /\ Called("install_server", result)
           /\ IF stage_ok(result) THEN suPc' = "mods" /\ UNCHANGED suExit
              ELSE Exit("1")
    /\ UNCHANGED <<suRoot, suOs, suArgs, suTool>>
    /\ Frame("setup")

\* main, lines 241-250.
MainMods(result) ==
    /\ suPc = "mods"
    /\ IF suArgs.skip_mods
       THEN /\ UNCHANGED <<suLog, suExit>>
            /\ suPc' = "plugins"
       ELSE /\ Called("install_all", result)
            /\ IF result = "true" THEN suPc' = "plugins" /\ UNCHANGED suExit
               ELSE Exit("1")
    /\ UNCHANGED <<suRoot, suOs, suArgs, suTool>>
    /\ Frame("setup")

\* main, lines 263-264: the answer to the plugin prompt.
MainPlugins(install_hvh_plugins) ==
    /\ suPc = "plugins"
    /\ suPc' = IF install_hvh_plugins THEN "plugin_loop" ELSE "config"
    /\ UNCHANGED <<suRoot, suOs, suArgs, suTool, suLog, suExit>>
    /\ Frame("setup")

\* main, lines 277-281.
hvh_plugins == <<"HvH Essentials", "Item Crash Fix", "Weapon Selector">>

after_plugin_TimeoutEndsRun(outcome) ==
    IF outcome = "interrupt" THEN "130"
    ELSE IF outcome = "clone_timeout" THEN "1"
    ELSE "next"

\* main, lines 287-308: what follows one iteration of the plugin loop.  A
\* non-zero exit of git and a False from install_plugin_from_directory are
\* logged; TimeoutExpired is an Exception and is caught at line 304;
\* KeyboardInterrupt is not, and ends main at line 418.
after_plugin(outcome) ==
    IF outcome = "interrupt" THEN "130" ELSE "next"

\* main, lines 283-308: one iteration of the plugin loop.
MainPluginAttempt(outcome) ==
    /\ suPc = "plugin_loop"
    /\ LET IsPlugin(e) == \E k \in 1..Len(hvh_plugins) : hvh_plugins[k] = e.op
           n == Len(SelectSeq(suLog, IsPlugin))
       IN  /\ Called(hvh_plugins[n + 1], outcome)
           /\ IF after_plugin(outcome) = "next"
              THEN /\ suPc' = IF n + 1 = Len(hvh_plugins) THEN "config" ELSE "plugin_loop"
                   /\ UNCHANGED suExit
              ELSE Exit(after_plugin(outcome))
    /\ UNCHANGED <<suRoot, suOs, suArgs, suTool>>
    /\ Frame("setup")

\* main, lines 314-416.  create_hvh_config is called with the keyword
\* enable_hvh_plugins, which its signature (server_config.py lines 27-31) does
\* not have: the call raises TypeError, caught at line 422.
MainConfig(cfgResult, infResult) ==
    /\ suPc = "config"
    /\ LET accepted == {"hostname", "rcon_password", "sv_password", "tickrate"}
           passed == {"hostname", "rcon_password", "sv_password", "tickrate",
                      "enable_hvh_plugins"}
           entry(op, r) == [op |-> op, result |-> r, tool |-> suTool.exists,
                            root |-> suRoot]
       IN  IF ~(passed \subseteq accepted)
           THEN /\ Called("create_hvh_config", "raise")
                /\ Exit("1")
           ELSE IF cfgResult # "true"
           THEN /\ Called("create_hvh_config", cfgResult)
                /\ Exit("1")
           ELSE /\ suLog' = suLog \o <<entry("create_hvh_config", cfgResult),
                                       entry("set_legacy_version", infResult)>>
                /\ Exit("0")
    /\ UNCHANGED <<suRoot, suOs, suArgs, suTool>>
    /\ Frame("setup")

\* main, lines 418-420: KeyboardInterrupt.
MainInterrupt ==
    /\ suPc \notin {"off", "done"}
    /\ Exit("130")
    /\ UNCHANGED <<suRoot, suOs, suArgs, suTool, suLog>>
    /\ Frame("setup")

SetupNext ==
    \/ \E os \in {"linux", "windows", "unknown"} : MainDetect(os)
    \/ \E installResult \in {"true", "false", "raise"},
          present \in SUBSET {"home_exe", "/usr/bin/steamcmd", "/usr/games/steamcmd"},
          exe \in {"home_exe", "/usr/bin/steamcmd", "/usr/games/steamcmd"},
          updateRaises \in BOOLEAN :
          MainSteamcmd(installResult,
                       [p \in SteamPaths |-> IF p \in present THEN "xfile" ELSE "none"],
                       exe, updateRaises)
    \/ \E custom \in BOOLEAN, present \in BOOLEAN, ok \in BOOLEAN :
          MainCsgoDir(custom, present, ok)
    \/ \E rc \in RunOutcomes : MainConfigure(rc)
    \/ \E is_first_login \in BOOLEAN, hasPassword \in BOOLEAN, rc \in RunOutcomes :
          MainLogin(is_first_login, hasPassword, rc)
    \/ \E rc \in RunOutcomes, sawSuccess \in BOOLEAN : MainInstallServer(rc, sawSuccess)
    \/ \E result \in {"true", "false", "raise"} : MainMods(result)
    \/ \E install_hvh_plugins \in BOOLEAN : MainPlugins(install_hvh_plugins)
    \/ \E outcome \in {"ok", "clone_fails", "clone_timeout", "no_sourcemod",
                        "marker_missing", "merge_fails", "interrupt"} :
          MainPluginAttempt(outcome)
    \/ \E cfgResult \in {"true", "false"}, infResult \in {"true", "false"} :
          MainConfig(cfgResult, infResult)
    \/ MainInterrupt

(***************************************************************************)
(* A specification exercises one component; the others stay in the state   *)
(* below.                                                                  *)
(***************************************************************************)
Idle(c) ==
    /\ IF c = "mod" THEN TRUE
       ELSE /\ modFs = [p \in ModPaths |-> "none"]
            /\ mmArchive = MetamodArchive(TRUE, FALSE, TRUE)
            /\ smArchive = SourcemodArchive(TRUE)
            /\ modPc = "idle"
            /\ modOp = "none"
            /\ modForce = FALSE
            /\ modIdx = 0
            /\ mmResult = "none"
            /\ smResult = "none"
            /\ allResult = "none"
            /\ modObs = NoObs
            /\ modCalls = 0
    /\ IF c = "steam" THEN TRUE
       ELSE /\ stOs = "linux"
            /\ stDistro = "none"
            /\ stPms = {}
            /\ stFs = [p \in SteamPaths |-> "none"]
            /\ stArchive = <<"home_exe", "home_rest">>
            /\ stExe = "home_exe"
            /\ stPc = "idle"
            /\ stIdx = 0
            /\ stResult = "none"
            /\ stPrev = "none"
            /\ stObs = SteamNoObs
            /\ stCalls = 0
    /\ IF c = "config" THEN TRUE
       ELSE /\ cfgDir = TRUE
            /\ serverCfg = [kind |-> "absent"]
            /\ serverCfgBackup = [kind |-> "absent"]
            /\ steamInf = <<"absent">>
            /\ steamInfBackup = <<"absent">>
            /\ cfgLast = NoCall
            /\ cfgCalls = 0
    /\ IF c = "plugin" THEN TRUE
       ELSE /\ tempDirs = {}
            /\ plSm = TRUE
            /\ plTarget = [dirs |-> {}, files |-> <<>>]
            /\ plPc = "idle"
            /\ plAttempt = NoAttempt
            /\ plCalls = 0
    /\ IF c = "csgo" THEN TRUE
       ELSE /\ csOs = "linux"
            /\ csDir = "default"
            /\ csFs = [d \in {"default", "custom"} |-> {}]
            /\ csFirstLogin = FALSE
            /\ csPc = "idle"
            /\ csCall = NoInstallCall
            /\ csLast = [op |-> "none", arg |-> "none", rc |-> "none", result |-> "none",
                      cmd |-> <<>>]
            /\ csOps = 0
            /\ csScenario = 0
    /\ IF c = "setup" THEN TRUE
       ELSE /\ suPc = "off"
            /\ suOs = "none"
            /\ suArgs = [skip_steamcmd |-> FALSE, skip_csgo |-> FALSE, skip_mods |-> FALSE,
                         validate |-> TRUE, install_dir |-> FALSE]
            /\ suTool = [path |-> "none", exists |-> FALSE]
            /\ suLog = <<>>
            /\ suExit = "none"
            /\ suRoot = FALSE
    /\ IF c = "url" THEN TRUE
       ELSE /\ urlSource = <<>>
            /\ urlDone = FALSE
            /\ urlResult = <<>>
    /\ IF c = "detect" THEN TRUE
       ELSE /\ dtFound = {}
            /\ dtDone = FALSE
            /\ dtManagers = <<>>

(***************************************************************************)
(* Specifications, one per component.                                      *)
(***************************************************************************)
InitMod == Idle("mod") /\ ModInit

SpecMod == InitMod /\ [][ModNext]_vars

InitSteam == Idle("steam") /\ SteamInit

SpecSteam == InitSteam /\ [][SteamNext]_vars

InitConfig == Idle("config") /\ ConfigInit

SpecConfig == InitConfig /\ [][ConfigNext]_vars

InitInf == Idle("config") /\ InfInit

SpecInf == InitInf /\ [][InfNext]_vars

InitPlugin == Idle("plugin") /\ PluginInit

SpecPlugin == InitPlugin /\ [][PluginNext]_vars

InitCsgo == Idle("csgo") /\ CsgoInit

SpecCsgo == InitCsgo /\ [][CsgoNext]_vars

InitSetup == Idle("setup") /\ SetupInit

SpecSetup == InitSetup /\ [][SetupNext]_vars

InitUrl == Idle("url") /\ UrlInit

SpecUrl == InitUrl /\ [][UrlNext]_vars

InitDetect == Idle("detect") /\ DetectInit

SpecDetect == InitDetect /\ [][DetectNext]_vars

(***************************************************************************)
(* Properties of SteamCMDInstaller.                                        *)
(***************************************************************************)
\* C2: install() called twice in a row, the first call having succeeded by
\* any strategy: the second call takes the already-installed path and
\* performs no filesystem write, no download and no package-manager
\* invocation.
C2_SecondInstallSkips ==
    (stCalls >= 2 /\ stPrev = "true" /\ stObs.started)
    => ( /\ stPc = "idle"
         /\ stResult = "true"
         /\ stObs.skipped
         /\ stObs.strategies = {}
         /\ stObs.writes = 0
         /\ stObs.downloads = 0
         /\ stObs.pkgCalls = 0 )

C2_Witness ==
    /\ stCalls = 2
    /\ stPrev = "true"
    /\ stDistro \in {"ubuntu", "debian", "linuxmint", "pop"}
    /\ stExe = "/usr/bin/steamcmd"
    /\ stFs["home_exe"] = "none"
    /\ stObs.skipped
    /\ stResult = "true"

\* C8: on Linux with a distribution that is not one of the recognized ids
\* (an absent one included) install() selects _install_linux_generic and
\* never invokes a package manager or an AUR helper.
C8_UnrecognizedDistroIsGeneric ==
    ( /\ stOs = "linux"
      /\ stDistro \notin {"arch", "manjaro", "endeavouros", "ubuntu", "debian",
                          "linuxmint", "pop", "fedora", "rhel", "centos"}
      /\ stObs.started
      /\ ~stObs.skipped )
    => ( /\ stObs.strategies = {"_install_linux", "_install_linux_generic"}
         /\ stObs.pkgCalls = 0
         /\ stPc \in {"idle", "archive_mkdir", "archive_download", "archive_extract"} )

C8_Witness ==
    /\ stOs = "linux"
    /\ stDistro = "none"
    /\ stPms = {"yay", "paru"}
    /\ stObs.started
    /\ ~stObs.skipped
    /\ stResult = "true"
    /\ stFs["home_exe"] = "xfile"

(***************************************************************************)
(* Properties of MetamodSourcemodInstaller.                                *)
(***************************************************************************)
\* C6: when the Metamod archive yields bin/linux64 and no bin/linux32,
\* install_all returns success (given that SourceMod installs) and linux64 is
\* the directory that was extracted: not removed, not replaced by a link.
C6_Only64BitSubtreeUntouched ==
    ( /\ modPc = "idle"
      /\ modOp = "install_all"
      /\ ArchiveHas(mmArchive, "linux64")
      /\ ~ArchiveHas(mmArchive, "linux32")
      /\ modObs.mmExtracted
      /\ mmResult = "true"
      /\ smResult = "true" )
    => ( /\ allResult = "true"
         /\ modObs.linux64Extracted = "dir"
         /\ modFs["linux64"] = "dir" )

C6_Witness ==
    /\ modPc = "idle"
    /\ modOp = "install_all"
    /\ ArchiveHas(mmArchive, "linux64")
    /\ ~ArchiveHas(mmArchive, "linux32")
    /\ modObs.mmExtracted
    /\ modObs.smExtracted
    /\ allResult = "true"
    /\ modFs["linux64"] = "dir"

\* C9: install_sourcemod, with any value of force, returns failure without
\* downloading or extracting anything whenever Metamod is not installed when
\* it is called.
C9_SourcemodRequiresMetamod ==
    (modObs.smStarted /\ ~modObs.mmInstalledAtSmStart)
    => ( /\ smResult = "false"
         /\ modPc = "idle"
         /\ modObs.smDownloads = 0
         /\ ~modObs.smExtracted )

C9_Witness ==
    /\ modObs.smStarted
    /\ ~modObs.mmInstalledAtSmStart
    /\ modForce
    /\ Exists(modFs, "csgo")
    /\ smResult = "false"

\* C10: install_all runs install_metamod before install_sourcemod; when
\* install_metamod returns failure install_sourcemod is never started and
\* install_all returns failure; install_all returns success only if both
\* returned success.
C10_InstallAllShortCircuits ==
    modOp = "install_all"
    => ( /\ modObs.smStarted => (modObs.mmStarted /\ mmResult = "true")
         /\ mmResult = "false" => (~modObs.smStarted /\ smResult = "none"
                                   /\ allResult = "false" /\ modPc = "idle")
         /\ allResult = "true" => (mmResult = "true" /\ smResult = "true") )

C10_Witness ==
    /\ modOp = "install_all"
    /\ modForce
    /\ modObs.mmInstalledAtStart
    /\ modObs.mmDownloads = 1
    /\ mmResult = "false"
    /\ allResult = "false"

\* C3: a call of create_hvh_config that returns success on a target where
\* server.cfg already exists leaves server.cfg.backup equal to the content
\* server.cfg had immediately before that call, and server.cfg equal to the
\* newly generated document; this holds for repeated calls too.
C3_SuccessfulCallBacksUpThenWrites ==
    ( /\ cfgLast.op = "create_hvh_config"
      /\ cfgLast.preCfg # [kind |-> "absent"]
      /\ cfgLast.result = "true" )
    => ( /\ serverCfgBackup = cfgLast.preCfg
         /\ serverCfg = cfgLast.doc )

\* A second successful call has replaced the backup of the first call by the
\* document the first call wrote.
C3_Witness ==
    /\ cfgCalls = 2
    /\ cfgLast.op = "create_hvh_config"
    /\ cfgLast.result = "true"
    /\ cfgLast.preCfg.kind = "hvh"
    /\ cfgLast.preBackup.kind = "user"
    /\ serverCfgBackup = cfgLast.preCfg
    /\ serverCfg # serverCfgBackup

\* C3 as stated, for every call whatever it returns: after the call the
\* backup equals the pre-call content and server.cfg is the new document.
C3_EveryCallBacksUpThenWrites ==
    ( /\ cfgLast.op = "create_hvh_config"
      /\ cfgLast.preCfg # [kind |-> "absent"] )
    => ( /\ serverCfgBackup = cfgLast.preCfg
         /\ serverCfg = cfgLast.doc )

\* C4: after a successful set_legacy_version on a descriptor with a
\* ClientVersion= line and no ServerVersion= line, the file has exactly one
\* line ServerVersion=2000258, one line more than before, every
\* ClientVersion= line rewritten in place to the target value, and every
\* other line unchanged (a line is compared without its terminator).
C4_AppendsServerVersionLine ==
    LET pre == readlines(cfgLast.preInf)
        post == readlines(steamInf)
        text(l) == IF l # <<>> /\ l[Len(l)] = "NL" THEN SubSeq(l, 1, Len(l) - 1) ELSE l
    IN  ( /\ cfgLast.op = "set_legacy_version"
          /\ cfgLast.result = "true"
          /\ \E i \in 1..Len(pre) : startswith(pre[i], "C=")
          /\ \A i \in 1..Len(pre) : ~startswith(pre[i], "S=") )
        => ( /\ Cardinality({i \in 1..Len(post) : text(post[i]) = <<"S=", "T">>}) = 1
             /\ Len(post) = Len(pre) + 1
             /\ \A i \in 1..Len(pre) :
                    text(post[i]) = IF startswith(pre[i], "C=") THEN <<"C=", "T">>
                                    ELSE text(pre[i]) )

\* C5: when an attempt to install a plugin from a remote source has returned,
\* whichever way (clone exits non-zero, clone times out, git is missing, the
\* staged tree lacks the marker directory, the merge fails, or success), the
\* temporary staging directory created for that attempt does not exist; this
\* holds for install_plugin and for an iteration of the loop of setup main.
C5_StagingDirectoryRemoved ==
    (plPc = "idle" /\ plAttempt.remote /\ plAttempt.result \in {"true", "false"})
    => ( /\ plAttempt.temp \notin tempDirs
         /\ tempDirs = {} )

\* install_plugin has returned after a clone that timed out, having created
\* a staging directory for the attempt.
C5_Witness ==
    /\ plPc = "idle"
    /\ plAttempt.variant = "script"
    /\ plAttempt.remote
    /\ plAttempt.temp # 0
    /\ plAttempt.path = "clone_timeout"
    /\ plAttempt.result = "false"

\* C7: starting from an empty target directory, when every SteamCMD
\* invocation exits 0 and app_update places the payload in the configured
\* directory, configure_install_dir, login of a first session with a password
\* and install_server with validate each return success in that order, and
\* is_installed is false before install_server and true after it.
C7_FreshInstallSequenceSucceeds ==
    /\ csScenario \in {1, 2, 3} => csLast.result = "true"
    /\ (csScenario \in {0, 1, 2} /\ csPc = "idle")
          => ~cs_is_installed(csFs[csDir], csOs)
    /\ csScenario = 3
          => ( /\ ~csCall.installedBefore
               /\ cs_is_installed(csFs[csDir], csOs) )

\* The three calls have been made in order on a fresh target and
\* install_server has returned.
C7_Witness ==
    /\ csScenario = 3
    /\ csOps = 3
    /\ csLast.op = "install_server"
    /\ csLast.arg = "validate"
    /\ csLast.rc = "ok"
    /\ csPc = "idle"
    /\ Payload(csOs) \ {"libgcc_s.so.1", "libstdc++.so.6"} \subseteq csFs[csDir]

\* C1: a stage (SteamCMD install, server install, Metamod install, SourceMod
\* install) that was not installed when it started and is interrupted after
\* its first filesystem write is reported as not installed by its
\* installed-check.
C1_InterruptedStageReportsNotInstalled ==
    /\ (stResult = "interrupted" /\ ~stObs.installedAtStart /\ stObs.writes > 0)
          => ~steam_is_installed(stFs, stExe)
    /\ (csLast.result = "interrupted" /\ ~csCall.installedBefore)
          => ~cs_is_installed(csFs[csDir], csOs)
    /\ (mmResult = "interrupted" /\ ~modObs.mmInstalledAtStart /\ modObs.mmWrote)
          => ~is_metamod_installed(modFs)
    /\ (smResult = "interrupted" /\ ~modObs.smInstalledAtStart /\ modObs.smWrote)
          => ~is_sourcemod_installed(modFs)

\* C11: no stage operation (install, configure_install_dir, login,
\* install_server, install_metamod, install_sourcemod,
\* install_plugin_from_directory, create_hvh_config, set_legacy_version) ends
\* with an exception: a failure of the external tool or of the filesystem is
\* a returned failure result.
C11_FailuresAreReturned ==
    /\ stResult # "raise"
    /\ csLast.op \in {"configure_install_dir", "login", "install_server"}
          => csLast.result # "raise"
    /\ mmResult # "raise"
    /\ smResult # "raise"
    /\ cfgLast.result # "raise"
    /\ plPc = "idle" /\ plAttempt.path \in {"no_sourcemod", "marker_missing", "merge_fails", "ok"}
          => plAttempt.result \in {"true", "false"}

\* C12: in every run of setup main, with or without --skip-steamcmd,
\* configure_install_dir, login and install_server are called only when a
\* file exists at the steamcmd_path handed to CSGOInstaller.
C12_FetchToolExistsBeforeUse ==
    \A i \in 1..Len(suLog) :
        suLog[i].op \in {"configure_install_dir", "login", "install_server"}
            => suLog[i].tool

\* A run with --skip-steamcmd has reached install_server.
C12_Witness ==
    /\ suArgs.skip_steamcmd
    /\ suTool.exists
    /\ \E i \in 1..Len(suLog) : suLog[i].op = "install_server"

\* C13: whenever SteamCMDInstaller.install() has returned failure,
\* is_installed() is false.
C13_FailedInstallNotInstalled ==
    (stPc = "idle" /\ stObs.started /\ stResult = "false")
    => ~steam_is_installed(stFs, stExe)

\* C14: whenever SteamCMDInstaller.install() has returned success,
\* get_steamcmd_path() names a file that exists; when a strategy (AUR helper,
\* manual AUR build, apt, generic archive, Windows archive) produced the
\* success on Linux, the file is executable.
C14_SuccessLeavesToolAtPath ==
    (stPc = "idle" /\ stObs.started /\ stResult = "true")
    => ( /\ stFs[stExe] # "none"
         /\ (stOs = "linux" /\ ~stObs.skipped) => stFs[stExe] = "xfile" )

\* apt has installed the package to /usr/bin/steamcmd and install() has
\* returned success.
C14_Witness ==
    /\ stPc = "idle"
    /\ stResult = "true"
    /\ "_install_debian" \in stObs.strategies
    /\ stExe = "/usr/bin/steamcmd"
    /\ stFs["/usr/games/steamcmd"] = "none"

\* C15: in every run of setup main, login is called only after
\* configure_install_dir has returned success, install_server only after
\* login has returned success, and a failure of configure_install_dir or of
\* login ends the run with a non-zero code before any other operation.
C15_ConfigureThenLoginThenInstall ==
    \A i \in 1..Len(suLog) :
        /\ suLog[i].op = "login"
              => \E j \in 1..(i - 1) : /\ suLog[j].op = "configure_install_dir"
                                       /\ suLog[j].result = "true"
        /\ suLog[i].op = "install_server"
              => \E j \in 1..(i - 1) : /\ suLog[j].op = "login"
                                       /\ suLog[j].result = "true"
        /\ (suLog[i].op \in {"configure_install_dir", "login"} /\ suLog[i].result # "true")
              => ( /\ i = Len(suLog)
                   /\ suPc = "done"
                   /\ suExit = "1" )

\* A run whose login failed after a successful configure_install_dir.
C15_Witness ==
    /\ Len(suLog) >= 2
    /\ suLog[Len(suLog)].op = "login"
    /\ suLog[Len(suLog)].result = "false"
    /\ suLog[Len(suLog) - 1].op = "configure_install_dir"
    /\ suExit = "1"

\* C16: once login() has succeeded on a CSGOInstaller, no later
\* set_install_directory / configure_install_dir changes the install
\* directory used by the commands that follow.
C16_DirectoryFixedAfterLogin ==
    [][csFirstLogin => csDir' = csDir]_vars

\* C17: create_hvh_config does not overwrite an existing server.cfg before
\* the backup copy has completed: when the copy fails the call returns
\* failure and server.cfg has its pre-call content, and server.cfg differs
\* from its pre-call content only when the backup holds that content.
C17_BackupBeforeWrite ==
    (cfgLast.op = "create_hvh_config" /\ cfgLast.preCfg # [kind |-> "absent"])
    => ( /\ cfgLast.copy # "ok"
            => (cfgLast.result = "false" /\ serverCfg = cfgLast.preCfg)
         /\ serverCfg # cfgLast.preCfg => serverCfgBackup = cfgLast.preCfg )

\* The backup copy of an existing server.cfg failed although the write
\* would have succeeded.
C17_Witness ==
    /\ cfgLast.op = "create_hvh_config"
    /\ cfgLast.preCfg = [kind |-> "user"]
    /\ cfgLast.copy = "fails_partway"
    /\ cfgLast.write = "ok"
    /\ serverCfg = [kind |-> "user"]

\* C18: after set_legacy_version has returned success, the file has a line
\* beginning with ClientVersion= and a line beginning with ServerVersion=,
\* every such line carries the value 2000258, and a key that no line began
\* with before the call has been appended as a line of its own.
C18_BothKeysPresentWithTarget ==
    LET pre == readlines(cfgLast.preInf)
        post == readlines(steamInf)
        text(l) == IF l # <<>> /\ l[Len(l)] = "NL" THEN SubSeq(l, 1, Len(l) - 1) ELSE l
    IN  (cfgLast.op = "set_legacy_version" /\ cfgLast.result = "true")
        => \A key \in {"C=", "S="} :
              /\ \E i \in 1..Len(post) : startswith(post[i], key)
              /\ \A i \in 1..Len(post) :
                    startswith(post[i], key) => text(post[i]) = <<key, "T">>
              /\ (\A i \in 1..Len(pre) : ~startswith(pre[i], key))
                    => \E i \in (Len(pre) + 1)..Len(post) : text(post[i]) = <<key, "T">>

\* C19: a successful set_legacy_version leaves the lines that do not begin
\* with ClientVersion= or ServerVersion= identical and in the same order, and
\* a rewritten key line keeps the position of the line it replaces.
C19_OtherLinesUntouched ==
    LET pre == readlines(cfgLast.preInf)
        post == readlines(steamInf)
        other(l) == ~startswith(l, "C=") /\ ~startswith(l, "S=")
    IN  (cfgLast.op = "set_legacy_version" /\ cfgLast.result = "true")
        => ( /\ SelectSeq(post, other) = SelectSeq(pre, other)
             /\ \A i \in 1..Len(pre), key \in {"C=", "S="} :
                    startswith(pre[i], key)
                        => (i <= Len(post) /\ startswith(post[i], key)) )

\* C20: when the plugin tree, cloned or local, has no top-level 'addons'
\* directory, the install call returns failure (it returns, so nothing was
\* raised) and the directories and files of the target installation are
\* exactly what they were before the install step.
C20_NoAddonsNoChange ==
    (/\ plPc = "idle"
     /\ plAttempt.path \in {"dir_missing", "no_sourcemod", "marker_missing",
                             "merge_fails", "ok"}
     /\ ~plAttempt.hasAddons)
    => /\ plAttempt.result = "false"
       /\ plTarget = plAttempt.before

C20_Witness ==
    /\ plPc = "idle"
    /\ plSm
    /\ plAttempt.variant = "setup"
    /\ plAttempt.remote
    /\ plAttempt.path = "marker_missing"
    /\ ~plAttempt.hasAddons
    /\ plAttempt.result = "false"
    /\ plTarget = plAttempt.before

\* C21: after install_plugin_from_directory returns success, every file of
\* the plugin tree exists at the same relative path under the target with the
\* source's content, inside an existing directory, whether or not a file or
\* the directory was there before; every other file under the target is what
\* it was before the call.
C21_MergeCopiesEveryFile ==
    (plPc = "idle" /\ plAttempt.path = "ok")
    => /\ \A i \in 1..Len(plAttempt.order) :
             /\ plTarget.files[plAttempt.order[i]] = "new"
             /\ plAttempt.order[i][1] \in plTarget.dirs
       /\ \A f \in DOMAIN plTarget.files :
             (\A i \in 1..Len(plAttempt.order) : plAttempt.order[i] # f)
             => plTarget.files[f] = plAttempt.before.files[f]
       /\ plAttempt.before.dirs \subseteq plTarget.dirs

C21_Witness ==
    /\ plPc = "idle"
    /\ plAttempt.path = "ok"
    /\ Len(plAttempt.order) = 2
    /\ plAttempt.before.files[<<"plugins", "a.smx">>] = "old"
    /\ "scripting" \notin plAttempt.before.dirs
    /\ plTarget.files[<<"plugins", "a.smx">>] = "new"
    /\ plTarget.files[<<"scripting", "a.sp">>] = "new"
    /\ plTarget.files[<<"configs", "admins_simple.ini">>] = "old"

\* C29: when a copy fails partway through the merge,
\* install_plugin_from_directory returns failure, the files copied before the
\* failing one stay in the target with the source's content, and the files
\* after the failing one are not copied.
C29_PartialMergeKept ==
    (plPc = "idle" /\ plAttempt.path = "merge_fails")
    => /\ plAttempt.result = "false"
       /\ \A i \in 1..Len(plAttempt.order) :
             /\ i < plAttempt.failAt => plTarget.files[plAttempt.order[i]] = "new"
             /\ i > plAttempt.failAt
                => plTarget.files[plAttempt.order[i]]
                     = plAttempt.before.files[plAttempt.order[i]]

C29_Witness ==
    /\ plPc = "idle"
    /\ plAttempt.path = "merge_fails"
    /\ plAttempt.result = "false"
    /\ plAttempt.failAt = 2
    /\ plAttempt.before.files[plAttempt.order[1]] = "none"
    /\ plTarget.files[plAttempt.order[1]] = "new"
    /\ plTarget.files[plAttempt.order[2]] = plAttempt.before.files[plAttempt.order[2]]

\* C22: a run of setup main on a supported OS whose earlier stages all
\* succeeded or were skipped, and so called create_hvh_config, has that call
\* return rather than raise, and ends with exit code 0 when the call
\* returned success.
C22_ConfigStageEndsWithZero ==
    (suPc = "done" /\ suExit # "130")
    => \A i \in 1..Len(suLog) :
          suLog[i].op = "create_hvh_config"
          => /\ suLog[i].result # "raise"
             /\ suLog[i].result = "true" => suExit = "0"

\* C23: in every run of setup main that does not skip the server stage, the
\* installation directory exists when configure_install_dir is invoked.
C23_RootExistsAtConfigure ==
    \A i \in 1..Len(suLog) :
       (suLog[i].op = "configure_install_dir" /\ ~suArgs.skip_csgo) => suLog[i].root

\* C24: a login with is_first_login false puts no password on the SteamCMD
\* command line, even when one is supplied; a login with is_first_login true
\* and no password returns failure without starting SteamCMD; and a first
\* login with a password returns success exactly when the interactive
\* SteamCMD process exits with code 0.
C24_LoginSecretAndResult ==
    csLast.op = "login"
    => /\ csLast.arg \in {"cached", "cached_password"}
          => \A i \in 1..Len(csLast.cmd) : csLast.cmd[i] # "password"
       /\ csLast.arg = "first_no_password"
          => csLast.result = "false" /\ csLast.cmd = <<>> /\ csLast.rc = "none"
       /\ csLast.arg = "first_password"
          => (csLast.result = "true") = (csLast.rc = "ok")

C24_Witness ==
    /\ csLast.op = "login"
    /\ csLast.arg = "cached_password"
    /\ csLast.rc = "ok"
    /\ csLast.result = "true"
    /\ csLast.cmd # <<>>
    /\ \A i \in 1..Len(csLast.cmd) : csLast.cmd[i] # "password"

\* C25: when SteamCMD exits, install_server returns success exactly when the
\* exit code is 0, whatever is missing from bin and whichever rename fails;
\* on Linux with exit code 0 every one of the two bundled libraries that was
\* present, and whose rename did not fail, is gone under its name and present
\* as <name>.bak; with a non-zero exit code, or on Windows, no file of the
\* installation is renamed.
C25_BundledLibrariesRenamed ==
    [][(csPc = "streaming" /\ csPc' = "idle" /\ csLast'.result # "interrupted")
       => /\ (csLast'.result = "true") = (csLast'.rc = "ok")
          /\ IF csLast'.rc = "ok" /\ csOs = "linux"
             THEN \A l \in {"libgcc_s.so.1", "libstdc++.so.6"} :
                     (l \in csFs[csDir] /\ l \notin csCall'.failing)
                     => /\ l \notin csFs'[csDir]
                        /\ (l \o ".bak") \in csFs'[csDir]
             ELSE csFs' = csFs]_vars

C25_Witness ==
    /\ csPc = "idle"
    /\ csOs = "linux"
    /\ csLast.op = "install_server"
    /\ csLast.result = "true"
    /\ csCall.failing = {"libgcc_s.so.1"}
    /\ "libgcc_s.so.1" \in csFs[csDir]
    /\ "libstdc++.so.6" \notin csFs[csDir]
    /\ "libstdc++.so.6.bak" \in csFs[csDir]

C27_ForceOverridesInstalledCheck ==
    /\ (modObs.mmStarted /\ mmResult \notin {"none", "interrupted"}
           /\ modObs.mmInstalledAtStart)
       => IF modForce
          THEN modObs.mmDownloads = 1 /\ (mmResult = "true" => modObs.mmExtracted)
          ELSE /\ mmResult = "true"
               /\ modObs.mmDownloads = 0 /\ ~modObs.mmExtracted /\ ~modObs.mmWrote
    /\ (modObs.smStarted /\ smResult \notin {"none", "interrupted"}
           /\ modObs.smInstalledAtStart)
       => IF modForce
          THEN modObs.smDownloads = 1 /\ (smResult = "true" => modObs.smExtracted)
          ELSE /\ smResult = "true"
               /\ modObs.smDownloads = 0 /\ ~modObs.smExtracted /\ ~modObs.smWrote

\* C27, amended: the same, where for install_sourcemod Metamod is installed
\* when the call starts; without Metamod install_sourcemod returns failure
\* before it looks at the installed-check or at force.
C27_ForceOverridesWhenDependencyMet ==
    /\ (modObs.mmStarted /\ mmResult \notin {"none", "interrupted"}
           /\ modObs.mmInstalledAtStart)
       => IF modForce
          THEN modObs.mmDownloads = 1 /\ (mmResult = "true" => modObs.mmExtracted)
          ELSE /\ mmResult = "true"
               /\ modObs.mmDownloads = 0 /\ ~modObs.mmExtracted /\ ~modObs.mmWrote
    /\ (modObs.smStarted /\ smResult \notin {"none", "interrupted"}
           /\ modObs.smInstalledAtStart /\ modObs.mmInstalledAtSmStart)
       => IF modForce
          THEN modObs.smDownloads = 1 /\ (smResult = "true" => modObs.smExtracted)
          ELSE /\ smResult = "true"
               /\ modObs.smDownloads = 0 /\ ~modObs.smExtracted /\ ~modObs.smWrote

C27_Witness ==
    /\ modPc = "idle"
    /\ modOp = "install_sourcemod"
    /\ modForce
    /\ modObs.smInstalledAtStart
    /\ modObs.mmInstalledAtSmStart
    /\ modObs.smDownloads = 1
    /\ modObs.smExtracted
    /\ smResult = "true"

\* C28: a call of install_metamod or install_sourcemod, with any value of
\* force, that starts while <install_dir>/csgo does not exist returns
\* failure, downloads nothing and creates no file or directory, csgo/addons
\* included.
C28_NoServerNoInstall ==
    ((modObs.mmStarted \/ modObs.smStarted) /\ ~modObs.csgoAtStart)
    => /\ mmResult \in {"none", "false", "interrupted"}
       /\ smResult \in {"none", "false", "interrupted"}
       /\ modPc = "idle" => (modObs.mmStarted => mmResult # "none")
                            /\ (modObs.smStarted => smResult # "none")
       /\ modObs.mmDownloads = 0
       /\ modObs.smDownloads = 0
       /\ \A p \in ModPaths : modFs[p] = "none"

C28_Witness ==
    /\ modPc = "idle"
    /\ modOp = "install_metamod"
    /\ modForce
    /\ modObs.mmStarted
    /\ ~modObs.csgoAtStart
    /\ mmResult = "false"
    /\ modFs["addons"] = "none"
    /\ modObs.mmDownloads = 0

(***************************************************************************)
(* Properties of the plugin source.                                        *)
(***************************************************************************)
\* C30: for every source that is_github_url accepts, the reference that
\* normalize_github_url returns does not end with '/', does not end with
\* '.git', and begins with 'http://', 'https://' or 'git@'.
C30_NormalizedReference ==
    (urlDone /\ is_github_url(urlSource))
    => /\ urlResult # <<>>
       /\ urlResult[Len(urlResult)] \notin {"/", ".git"}
       /\ urlResult[1] \in {"http://", "https://", "git@"}

\* C31: after set_legacy_version returns success, steam.inf.backup holds
\* exactly the content steam.inf had before the call; and a call whose backup
\* copy fails leaves steam.inf as it was and returns failure, so steam.inf is
\* not written before the copy has completed.
C31_InfBackupBeforeWrite ==
    cfgLast.op = "set_legacy_version"
    => /\ cfgLast.result = "true" => steamInfBackup = cfgLast.preInf
       /\ (cfgLast.preInf # <<"absent">> /\ cfgLast.copy # "ok")
          => steamInf = cfgLast.preInf /\ cfgLast.result = "false"

C31_Witness ==
    /\ cfgLast.op = "set_legacy_version"
    /\ cfgLast.result = "true"
    /\ cfgLast.preInf = <<"x", "NL", "C=", "v", "NL">>
    /\ cfgLast.preInfBackup = <<"x", "NL">>
    /\ steamInfBackup = cfgLast.preInf
    /\ steamInf # cfgLast.preInf

(***************************************************************************)
(* Properties of detect_package_managers.                                  *)
(***************************************************************************)
\* C32: the list detect_package_managers returns is never empty, has no
\* duplicates, lists exactly the managers found, in the order yay, paru,
\* pacman, apt, dnf, winget, choco, and holds UNKNOWN if and only if no
\* candidate was found, UNKNOWN then being its only element.
C32_ManagersListWellFormed ==
    dtDone
    => LET order == <<"yay", "paru", "pacman", "apt", "dnf", "winget", "choco">>
           pos(m) == CHOOSE k \in 1..Len(order) : order[k] = m
           elems == {dtManagers[i] : i \in 1..Len(dtManagers)}
       IN  /\ dtManagers # <<>>
           /\ \A i, j \in 1..Len(dtManagers) : i # j => dtManagers[i] # dtManagers[j]
           /\ ("unknown" \in elems) = (dtFound = {})
           /\ dtFound = {} => dtManagers = <<"unknown">>
           /\ dtFound # {}
              => /\ elems = dtFound
                 /\ \A i, j \in 1..Len(dtManagers) :
                       i < j => pos(dtManagers[i]) < pos(dtManagers[j])

C32_Witness ==
    /\ dtDone
    /\ dtFound = {}
    /\ dtManagers = <<"unknown">>

\* C33: when install() on an Arch-family profile has gone through
\* _install_arch and come back, the AUR helper that was run is yay when yay
\* is in the profile, else paru when paru is, else none; the manual build
\* from the AUR was started exactly when no helper is in the profile or the
\* helper's install failed; and the stage returned failure only when the
\* manual build failed.
C33_ArchHelperThenManualBuild ==
    (stPc = "idle" /\ "_install_arch" \in stObs.strategies
        /\ stResult \in {"true", "false", "raise"})
    => /\ stObs.helper = (IF "yay" \in stPms THEN "yay"
                          ELSE IF "paru" \in stPms THEN "paru" ELSE "none")
       /\ stObs.manual = (stObs.helper = "none" \/ stObs.helperOut = "fail")
       /\ stResult = "false" => (stObs.manual /\ stObs.manualFailed)

C33_Witness ==
    /\ stPc = "idle"
    /\ "_install_arch" \in stObs.strategies
    /\ stPms = {"yay", "paru"}
    /\ stObs.helper = "yay"
    /\ stObs.helperOut = "fail"
    /\ stObs.manual
    /\ stObs.manualFailed
    /\ stResult = "false"

\* C34: after install() has succeeded through a package-manager strategy
\* (_install_arch, _install_debian), a newly constructed SteamCMDInstaller,
\* whose steamcmd_exe is the default <home>/steamcmd/steamcmd.sh, reports
\* is_installed() true; this is also the path a run with --skip-steamcmd
\* checks.
C34_FreshInstallerSeesPackage ==
    (stPc = "idle" /\ stResult = "true" /\ ~stObs.skipped
        /\ stObs.strategies \cap {"_install_arch", "_install_debian"} # {})
    => steam_is_installed(stFs, "home_exe")

\* C35: set_legacy_version is idempotent on the content of steam.inf: a
\* successful call that directly follows a successful call leaves steam.inf
\* with the content the first call gave it.
C35_SecondApplicationChangesNothing ==
    [][(/\ cfgLast.op = "set_legacy_version" /\ cfgLast.result = "true"
        /\ cfgCalls' = cfgCalls + 1
        /\ cfgLast'.op = "set_legacy_version" /\ cfgLast'.result = "true")
       => steamInf' = steamInf]_vars

\* C36: in setup main the plugins are attempted in the order of the list,
\* and once one has been attempted, whatever its outcome short of an
\* interrupt, a run that has left the plugin loop has attempted all of them
\* and has reached the configuration stage.
C36_PluginFailureDoesNotEndRun ==
    LET IsPlugin(e) == \E k \in 1..Len(hvh_plugins) : hvh_plugins[k] = e.op
        attempts == SelectSeq(suLog, IsPlugin)
    IN  /\ \A i \in 1..Len(attempts) : attempts[i].op = hvh_plugins[i]
        /\ (attempts # <<>> /\ suPc # "plugin_loop" /\ suExit # "130")
           => /\ Len(attempts) = Len(hvh_plugins)
              /\ \/ suPc = "config"
                 \/ \E i \in 1..Len(suLog) : suLog[i].op = "create_hvh_config"

C36_Witness ==
    /\ suPc = "done"
    /\ suExit = "1"
    /\ Len(suLog) >= 4
    /\ suLog[Len(suLog)].op = "create_hvh_config"
    /\ suLog[Len(suLog) - 3].op = "HvH Essentials"
    /\ suLog[Len(suLog) - 3].result = "clone_timeout"
    /\ suLog[Len(suLog) - 2].result = "marker_missing"
    /\ suLog[Len(suLog) - 1].result = "merge_fails"

\* C37: the result of install_server depends only on SteamCMD's exit code:
\* whatever lines were read (a "Success!" line or none, progress lines or
\* none) the result is success exactly when the exit code is 0, and when the
\* exit code is read every line SteamCMD wrote has been consumed.
C37_ResultFromExitCodeAfterOutput ==
    (csPc = "idle" /\ csLast.op = "install_server" /\ csLast.rc \in {"ok", "fail"})
        => /\ (csLast.result = "true") = (csLast.rc = "ok")
           /\ (csLast.result = "false") = (csLast.rc = "fail")
           /\ csCall.pending = <<>>
           /\ csCall.lines = csCall.emitted

\* SteamCMD printed "Success!", the line was read, and the exit code was
\* nonzero all the same: install_server returned failure.
C37_Witness ==
    /\ csPc = "idle"
    /\ csLast.op = "install_server"
    /\ csLast.rc = "fail"
    /\ csLast.result = "false"
    /\ csCall.sawSuccess
    /\ csCall.lines = MaxLines
    /\ csCall.pending = <<>>

\* C38: while <server>/csgo/addons/sourcemod does not exist, no step creates
\* or modifies a directory or file under the target, and every install call
\* that finishes returns failure; so however many plugins a run tries on a
\* server without SourceMod, none is ever merged.
C38_NoSourcemodNoMerge ==
    [][ ~plSm => /\ plTarget' = plTarget
                 /\ (plPc = "install" /\ plPc' = "idle")
                       => plAttempt'.result = "false" ]_vars

\* The main script's plugin step on a server without SourceMod, given a
\* cloned tree that has 'addons' and files to copy: the call returned
\* failure and the target is what it was.
C38_Witness ==
    /\ plPc = "idle"
    /\ ~plSm
    /\ plAttempt.variant = "setup"
    /\ plAttempt.remote
    /\ plAttempt.path = "no_sourcemod"
    /\ plAttempt.hasAddons
    /\ Len(plAttempt.order) = 2
    /\ plAttempt.failAt = 0
    /\ plAttempt.result = "false"
    /\ plTarget = plAttempt.before

====
